---- MODULE Spec2Model ----
(***************************************************************************)
(* File-lifecycle orchestration of the response-processing lambda:         *)
(* dispatcher (Actions.start_process), classification (Specialflow),       *)
(* normal flow (Actions.normal_flow and its steps) and the error / retry   *)
(* policy engine (ErrorHandling.process_file_error, ErrorHandling.errors). *)
(*                                                                         *)
(* One archive and its FileRecord are followed through the ledger tables,  *)
(* the bucket and the queues.  One lambda invocation runs at a time; every *)
(* ledger, queue and object-store call may fail (at most MaxFaults times   *)
(* in a behaviour).  Timestamps are abstracted to insertion order.         *)
(***************************************************************************)
EXTENDS Integers, Sequences, FiniteSets, TLC

(* ---------------------------- bounds ----------------------------------- *)
\* config-retries.number-retries of the parameter store
NumberRetries == 2
\* service calls outside the error engine that may fail in one behaviour
MaxFaults == 1
\* calls of one run of the error engine that may fail
MaxEngineFaults == 1
\* re-drive envelopes an external producer may enqueue
MaxInjected == 1
\* where events of two records are followed, events are delivered while the
\* file's runs, history rows and consolidate-requests are at most this many
MaxBatchWrites == 3
\* counters saturate here (above NumberRetries, so no comparison changes)
MaxCounter == NumberRetries + 1

(* ---------------------------- vocabulary ------------------------------- *)
FileId == 1

ESTADO_ENVIADO == "ENVIADO"
ESTADO_PREVALIDADO == "PREVALIDADO"
ESTADO_PROCESAMIENTO_FALLIDO == "PROCESAMIENTO_FALLIDO"
ESTADO_PROCESA_PENDIENTE_REINTENTO == "PROCESA_PENDIENTE_REINTENTO"
ESTADO_PROCESAMIENTO_RECHAZADO == "PROCESAMIENTO_RECHAZADO"
CARGANDO == "CARGANDO_RTA_PROCESAMIENTO"

\* Actions.validate_states: estados_list
estados_list ==
  { ESTADO_ENVIADO, ESTADO_PREVALIDADO, ESTADO_PROCESAMIENTO_FALLIDO,
    ESTADO_PROCESA_PENDIENTE_REINTENTO, ESTADO_PROCESAMIENTO_RECHAZADO }

\* states a FileRecord is found in when a notification arrives: never sent
\* back, waiting for a retry, failed before, or still loading
FileStates ==
  { ESTADO_ENVIADO, ESTADO_PROCESA_PENDIENTE_REINTENTO,
    ESTADO_PROCESAMIENTO_FALLIDO, CARGANDO }

\* error codes handed to process_file_error
PfeCodes == { "EICP006", "EPGA001" }

Sat(n) == IF n >= MaxCounter THEN MaxCounter ELSE n + 1

(* ---------------------------- archives --------------------------------- *)
\* An archive: its name prefix, the "-R" marker, the parts of its key that
\* the check of a special name reads, and the member listing of the zip
\* (count n; kw: a keyword of the profile of that count occurs; re: all
\* members start with "RE_";
\* pfx: all member prefixes agree with the archive's).
Prefixes == { "RE_PRO_", "RE_PRE_", "RE_ESP_", "OTHER_" }

\* parameterstore["config-retries"]["start-special-files"] and
\* ["end-special-files"], with the values of the repository's tests
start_special_files == "RE_ESP_TUTGMF00010039"
end_special_files == "-0001"

\* the date of the invocation, as DatetimeManagement.get_datetime gives it
fecha_actual == [y |-> 2024, m |-> 8, d |-> 3]

\* a character of archivo_ruta[31:39] is a digit, or X for any other
X == 0 - 1

\* a key as validate_well_formed_esp reads it: archivo_ruta[10:31],
\* archivo_ruta[31:39] and archivo_ruta[-9:-4]
Key(fija1, fecha, fija2) ==
  [parte_fija1 |-> fija1, fecha_str |-> fecha, parte_fija2 |-> fija2]

\* the keys the check is applied to: dated the day before the invocation,
\* the same day and the day after; dated 30 February, 29 February of a common
\* year, month 13, day 00; a date with a letter in it; a key with another
\* start window and one with another end window
EspKeys ==
  { Key(start_special_files, << 2, 0, 2, 4, 0, 8, 0, 2 >>, end_special_files),
    Key(start_special_files, << 2, 0, 2, 4, 0, 8, 0, 3 >>, end_special_files),
    Key(start_special_files, << 2, 0, 2, 4, 0, 8, 0, 4 >>, end_special_files),
    Key(start_special_files, << 2, 0, 2, 4, 0, 2, 3, 0 >>, end_special_files),
    Key(start_special_files, << 2, 0, 2, 3, 0, 2, 2, 9 >>, end_special_files),
    Key(start_special_files, << 2, 0, 2, 4, 1, 3, 0, 1 >>, end_special_files),
    Key(start_special_files, << 2, 0, 2, 4, 0, 8, 0, 0 >>, end_special_files),
    Key(start_special_files, << 2, 0, 2, 4, 0, 8, 0, X >>, end_special_files),
    Key("RE_ESP_TUTGMF00010040", << 2, 0, 2, 4, 0, 8, 0, 2 >>, end_special_files),
    Key(start_special_files, << 2, 0, 2, 4, 0, 8, 0, 3 >>, "-0002") }

\* the keys of the special archives followed through the pipeline: dated the
\* day before the invocation, the same day and the day after, dated
\* 30 February, and with another end window
EspKeysFollowed ==
  { Key(start_special_files, << 2, 0, 2, 4, 0, 8, 0, 2 >>, end_special_files),
    Key(start_special_files, << 2, 0, 2, 4, 0, 8, 0, 3 >>, end_special_files),
    Key(start_special_files, << 2, 0, 2, 4, 0, 8, 0, 4 >>, end_special_files),
    Key(start_special_files, << 2, 0, 2, 4, 0, 2, 3, 0 >>, end_special_files),
    Key(start_special_files, << 2, 0, 2, 4, 0, 8, 0, 3 >>, "-0002") }

\* the key of an archive that is not special
StandardKey == Key("RE_PRO_TUTGMF00010039", << 2, 0, 2, 4, 0, 8, 0, 2 >>, end_special_files)

\* datetime.strptime(fecha_str, "%Y%m%d").date(): the date, or None (a
\* ValueError) when the characters are not the digits of a calendar date
None == [y |-> 0, m |-> 0, d |-> 0]

IsLeap(y) == (y % 4 = 0 /\ y % 100 # 0) \/ y % 400 = 0

DaysInMonth(y, m) ==
  IF m = 2 THEN (IF IsLeap(y) THEN 29 ELSE 28)
  ELSE IF m \in { 4, 6, 9, 11 } THEN 30 ELSE 31

strptime(c) ==
  IF \E i \in 1..8 : c[i] = X THEN None
  ELSE LET y == 1000 * c[1] + 100 * c[2] + 10 * c[3] + c[4]
           m == 10 * c[5] + c[6]
           d == 10 * c[7] + c[8]
       IN IF y >= 1 /\ m \in 1..12 /\ d >= 1 /\ d <= DaysInMonth(y, m)
          THEN [y |-> y, m |-> m, d |-> d]
          ELSE None

\* date <= date
DateLeq(a, b) ==
  \/ a.y < b.y
  \/ a.y = b.y /\ a.m < b.m
  \/ a.y = b.y /\ a.m = b.m /\ a.d <= b.d

\* a variant of the check of a special name: the date not compared with the
\* day of the invocation
validate_any_date(archivo_ruta, startspecialfiles, endspecialfiles) ==
  IF archivo_ruta.parte_fija1 # startspecialfiles
       \/ archivo_ruta.parte_fija2 # endspecialfiles
  THEN FALSE
  ELSE strptime(archivo_ruta.fecha_str) # None

\* validate_well_formed_esp
validate_well_formed_esp(archivo_ruta, startspecialfiles, endspecialfiles) ==
  IF archivo_ruta.parte_fija1 # startspecialfiles
       \/ archivo_ruta.parte_fija2 # endspecialfiles
  THEN FALSE
  ELSE LET fecha_archivo == strptime(archivo_ruta.fecha_str)
       IN IF fecha_archivo = None THEN FALSE
          ELSE DateLeq(fecha_archivo, fecha_actual)

\* the archive's key passes the check of a special name
WellFormed(a) == validate_well_formed_esp(a.key, start_special_files, end_special_files)

Archives ==
  { [prefix |-> p, rev |-> r, key |-> w, n |-> n, kw |-> k, re |-> e, pfx |-> x] :
      p \in Prefixes, r \in BOOLEAN, w \in EspKeys \cup { StandardKey },
      n \in {2, 3}, k \in BOOLEAN, e \in BOOLEAN, x \in BOOLEAN }

\* the archives followed: a reversal of three members with at most one defect
\* in its listing; a standard archive whose listing is not the five members
\* of its type; a special archive of two members, under each of the keys
ArchivesFollowed ==
  { a \in Archives :
      /\ a.prefix \in { "RE_PRO_", "RE_ESP_" }
      /\ (a.prefix = "RE_ESP_") => (~a.rev /\ a.n = 2)
      /\ (a.prefix = "RE_PRO_") => (a.key = StandardKey /\ a.n = 3)
      /\ (a.prefix = "RE_ESP_") => (a.key \in EspKeysFollowed)
      /\ Cardinality({ f \in {"kw", "re", "pfx"} : ~a[f] }) <= 1
      /\ (a.prefix = "RE_ESP_" \/ ~a.rev) => (a.kw /\ a.re /\ a.pfx) }

VARIABLES
  archive,               \* the archive of the notification
  cgd_archivos,          \* FileRecord: [exists, estado, contador]
  cgd_archivo_estados,   \* FileStateHistory: Seq of [estado_inicial, estado_final]
  cgd_rta_procesamiento, \* ProcessingRun rows of the file, in reception order
  cgd_rta_pro_archivos,  \* MemberFile rows: set of [id_rta, nombre, estado]
  catalogo,              \* ErrorCatalogEntry.aplica_reprogramar per code
  s3,                    \* [inbox, zip, folder (members of the working folder), rejected]
  sqs_process,           \* source queue: set of messages
  sqs_validate,          \* validate-requests published, counted per body
  sqs_consolidate,       \* consolidate-requests published: Seq of run ids
  sqs_emails,            \* notifications published, per template
  pc,                    \* position of the running invocation
  event,                 \* Records of the running invocation
  loc,                   \* locals of the running invocation
  hist,                  \* what the running invocation did (observation only)
  redrives,              \* re-drive envelopes published so far
  injected,              \* external re-drive envelopes enqueued so far
  nextMsg,               \* next message number
  faults,                \* failed service calls so far
  call                   \* a function applied on its own: [f, arg, ret]

ledger == << cgd_archivos, cgd_archivo_estados, cgd_rta_procesamiento, cgd_rta_pro_archivos >>
queues == << sqs_process, sqs_validate, sqs_consolidate, sqs_emails, redrives, nextMsg >>
inputs == << archive, call >>
vars == << archive, call, cgd_archivos, cgd_archivo_estados, cgd_rta_procesamiento,
           cgd_rta_pro_archivos, catalogo, s3, sqs_process, sqs_validate,
           sqs_consolidate, sqs_emails, pc, event, loc, hist, redrives,
           injected, nextMsg, faults >>

(* ---------------------------- helpers ---------------------------------- *)
\* a service call fails or not, within the fault budget
Outcomes == IF faults < MaxFaults THEN {FALSE, TRUE} ELSE {FALSE}

\* n independent calls, each failing or not, within the fault budget
CountTrue(fv) == Cardinality({ k \in DOMAIN fv : fv[k] })
FaultVectors(n) == { fv \in [1..n -> BOOLEAN] : faults + CountTrue(fv) <= MaxFaults }

\* the calls of one run of the error engine, of which at most
\* MaxEngineFaults fail (the engine mostly runs after a call has failed, so
\* its own calls have a budget of their own)
EngineFaultVectors(n) == { fv \in [1..n -> BOOLEAN] : CountTrue(fv) <= MaxEngineFaults }

B2N(b) == IF b THEN 1 ELSE 0

\* message bodies
S3Event(n) ==
  [n |-> n, Records |-> TRUE, file_id |-> 0, response_processing_id |-> 0,
   is_reprocessing |-> FALSE]

\* no function is being applied on its own
NoCall == [f |-> "none"]

LocInit ==
  [file_id |-> 0, state |-> "", result_state_validation |-> FALSE,
   result_zip_validation |-> FALSE, result_file_validation |-> FALSE,
   inTry |-> FALSE, after |-> "", error_code |-> "", i |-> 0,
   valido |-> FALSE, tipo |-> "", response_processing_id |-> 0, rec |-> 1]

HistInit ==
  [dispatch |-> "none", engine |-> "none", code |-> "", branch |-> "none",
   cnt |-> -1, retryable |-> FALSE, hadRun |-> FALSE, engFault |-> FALSE,
   redrive |-> 0, redriveIds |-> FALSE, notif |-> "", deleted |-> FALSE,
   nfState |-> "none", nfChecked |-> FALSE, steps |-> {},
   consEntry |-> "none", consPublished |-> 0, consWrites |-> 0,
   success |-> FALSE, exc |-> "", s3check |-> "none", keyExisted |-> FALSE,
   lookup |-> "none", bootstrap |-> "none", resume |-> "none", runs0 |-> 0,
   regFailed |-> 0, members0 |-> -1]

\* a step of the normal flow ran (recorded once normal_flow was entered)
Did(h, s) == IF h.nfState = "none" THEN h ELSE [h EXCEPT !.steps = @ \cup s]

\* an earlier response of the same file, already handed to consolidation
PriorRun ==
  [id_rta_procesamiento |-> 1, estado |-> "ENVIADO", tipo_respuesta |-> "01",
   contador |-> 1, codigo_error |-> ""]

\* an earlier response of the same file that was set aside for reprocessing
PriorRunReproceso == [PriorRun EXCEPT !.estado = "PENDIENTE_REPROCESO"]

\* SqsService.send_message on a queue whose messages are counted per body
Publish(q, body) ==
  [k \in DOMAIN q \cup {body} |->
     IF k = body THEN Sat(IF body \in DOMAIN q THEN q[body] ELSE 0) ELSE q[k]]

Published(q, body) == IF body \in DOMAIN q THEN q[body] ELSE 0

\* the body of a validate-request, as far as it identifies the member
ValidateRequest(rpid, nombre) ==
  [response_processing_id |-> rpid, file_name |-> nombre]

\* the object store before the first delivery: the archive is in the inbox;
\* other says whether the archive of another file is under the processing
\* prefix ("none", "zip", or "expanded" once it was expanded and deleted)
StoreInit(other) ==
  [inbox |-> TRUE, zip |-> FALSE, folder |-> {}, rejected |-> FALSE, other |-> other]

InitWith(store) ==
  /\ archive \in ArchivesFollowed
  /\ cgd_archivos \in
       { [exists |-> e, estado |-> st, contador |-> c] :
           e \in BOOLEAN, st \in FileStates, c \in 0..NumberRetries }
  /\ (~cgd_archivos.exists) => (cgd_archivos.estado = ESTADO_ENVIADO /\ cgd_archivos.contador = 0)
  /\ cgd_archivo_estados = << >>
  /\ cgd_rta_procesamiento \in { << >>, << PriorRun >>, << PriorRunReproceso >> }
  /\ (~cgd_archivos.exists) => (cgd_rta_procesamiento = << >>)
  /\ cgd_rta_pro_archivos = {}
  /\ catalogo \in { [c \in PfeCodes |-> b] : b \in BOOLEAN }
  /\ s3 = store
  /\ sqs_process = { S3Event(1) }
  /\ sqs_validate = [k \in {} |-> 0]
  /\ sqs_consolidate = << >>
  /\ sqs_emails = [t \in {"PC009", "PC012", "PC013"} |-> 0]
  /\ pc = "idle"
  /\ event = << >>
  /\ loc = LocInit
  /\ hist = HistInit
  /\ redrives = 0
  /\ injected = 0
  /\ nextMsg = 2
  /\ faults = 0
  /\ call = NoCall

\* one file at a time: nothing else is under the processing prefix
Init == InitWith(StoreInit("none"))

(* ---------------------------- ledger queries --------------------------- *)
Runs == cgd_rta_procesamiento
HasRun == Len(Runs) > 0

\* custom_queries.query_data_acg_rta_procesamiento: latest run of the file
\* (ORDER BY fecha_recepcion DESC LIMIT 1); the empty sequence when none
query_data_acg_rta_procesamiento ==
  IF HasRun THEN << Runs[Len(Runs)] >> ELSE << >>

\* custom_queries.query_archivos_data_count_rta_pro_archivos
cantidad_total_registros(rpid) ==
  Cardinality({ a \in cgd_rta_pro_archivos : a.id_rta_procesamiento = rpid })

\* DatabaseService.update_by_id on CGDRtaProcesamiento with id_name="id_archivo":
\* the row is session.query(model).filter(id_archivo == id).first(), with no
\* ORDER BY, so any run row of the file may be the one that is written
FirstRows == 1..Len(Runs)

(* ---------------------------- object store ----------------------------- *)
\* Unzipfile.read_s3: the listing of the most recent entry under the
\* processing prefix whose name starts with the archive's base name.  The
\* entries are compared by the text after their last "_"; the zip's own key
\* ("...TUTGMF....zip") sorts above a working folder's timestamp, and listing
\* under the zip's key yields nothing
read_s3 == IF s3.zip THEN {} ELSE s3.folder

\* carpeta_mas_reciente of read_s3: None when nothing matches
carpeta_mas_reciente ==
  IF s3.zip THEN "zip" ELSE IF s3.folder # {} THEN "folder" ELSE "None"

\* where the archive is: still in the inbox, moved under the processing
\* prefix, or expanded into its working folder
StoreAt ==
  IF s3.zip THEN "moved" ELSE IF s3.folder # {} THEN "expanded"
  ELSE IF s3.inbox THEN "inbox" ELSE "gone"

(* ---------------------------- exceptions ------------------------------- *)
\* Specialflow.special_flow wraps classification and the normal flow in
\* try / except (ValueError, KeyError): those are logged and the call returns;
\* every other exception reaches lambda_handler, which logs and re-raises
RaisePc(exc, inTry) ==
  IF inTry /\ exc \in {"ValueError", "KeyError"} THEN "returned" ELSE "raised"

(* ---------------------------- invocation ------------------------------- *)
\* the event source hands one message of the source queue to lambda_handler
DeliverMsg(m) ==
  /\ pc = "idle"
  /\ m \in sqs_process
  /\ event' = << m >>
  /\ pc' = "start_process"
  /\ UNCHANGED << inputs, ledger, catalogo, s3, queues, loc, hist, injected, faults >>

Deliver == \E m \in sqs_process : DeliverMsg(m)

\* what the pipeline has written for the file so far
BatchWrites ==
  Len(cgd_rta_procesamiento) + Len(cgd_archivo_estados) + Len(sqs_consolidate)

\* the records of the event being handled: their messages are in flight
InFlight == { event[r] : r \in DOMAIN event }

\* the event source hands a batch of two messages to lambda_handler
DeliverBatch ==
  /\ pc = "idle"
  /\ BatchWrites <= MaxBatchWrites
  /\ \E m1 \in sqs_process, m2 \in sqs_process :
       /\ m1 # m2
       /\ event' = << m1, m2 >>
  /\ pc' = "start_process"
  /\ UNCHANGED << inputs, ledger, catalogo, s3, queues, loc, hist, injected, faults >>

\* lambda_handler: for record in event["Records"], after start_process
\* returned for a record that is not the last
next_record ==
  /\ pc = "returned"
  /\ loc.rec < Len(event)
  /\ pc' = "start_process"
  /\ loc' = [LocInit EXCEPT !.rec = loc.rec + 1]
  /\ hist' = HistInit
  /\ UNCHANGED << inputs, ledger, catalogo, s3, queues, event, injected, faults >>

\* an external producer enqueues a re-drive envelope in the format that
\* start_process reads: the storage event plus file_id, response_processing_id
\* and is_reprocessing
InjectRedrive ==
  /\ pc = "idle"
  /\ injected < MaxInjected
  /\ cgd_archivos.exists
  /\ HasRun
  /\ sqs_process' = sqs_process \cup
       { [n |-> nextMsg, Records |-> TRUE, file_id |-> FileId,
          response_processing_id |-> Runs[Len(Runs)].id_rta_procesamiento,
          is_reprocessing |-> TRUE] }
  /\ nextMsg' = nextMsg + 1
  /\ injected' = injected + 1
  /\ UNCHANGED << inputs, ledger, catalogo, s3, sqs_validate, sqs_consolidate,
                  sqs_emails, redrives, pc, event, loc, hist, faults >>

\* Actions.start_process
start_process ==
  /\ pc = "start_process"
  /\ LET m == event[loc.rec] IN
     IF ~m.Records
     THEN \* sqs_message["Records"] of a body without that key
          /\ pc' = RaisePc("KeyError", FALSE)
          /\ hist' = [hist EXCEPT !.exc = "KeyError", !.dispatch = "KeyError"]
          /\ UNCHANGED << loc, ledger, faults >>
     ELSE IF ~m.is_reprocessing
     THEN /\ pc' = "validate_s3_file_in_queue_message"
          /\ loc' = [loc EXCEPT !.file_id = m.file_id, !.after = "special_flow"]
          /\ hist' = [hist EXCEPT !.dispatch = "first_arrival"]
          /\ UNCHANGED << ledger, faults >>
     ELSE IF m.file_id # 0 /\ m.response_processing_id # 0
     THEN \E p \in 0..3 :
            /\ (p # 0) => (faults < MaxFaults)
            /\ faults' = faults + B2N(p # 0)
            /\ IF ~HasRun
               THEN \* _find_record_by_id: no row, ValueError
                    /\ p = 0
                    /\ pc' = RaisePc("ValueError", FALSE)
                    /\ hist' = [hist EXCEPT !.exc = "ValueError", !.dispatch = "ValueError"]
                    /\ UNCHANGED << loc, ledger >>
               ELSE IF p = 1
               THEN \* update_by_id failed
                    /\ pc' = "process_file_error"
                    /\ loc' = [loc EXCEPT !.file_id = m.file_id, !.error_code = "EPGA001"]
                    /\ hist' = [hist EXCEPT !.dispatch = "EPGA001"]
                    /\ UNCHANGED ledger
               ELSE \E k \in FirstRows :
                    /\ cgd_rta_procesamiento' =
                         [Runs EXCEPT ![k].estado = "INICIADO",
                                      ![k].contador = Sat(Runs[k].contador)]
                    /\ UNCHANGED << cgd_archivos, cgd_archivo_estados, cgd_rta_pro_archivos >>
                    /\ hist' = [hist EXCEPT !.dispatch = "redrive",
                                            !.exc = IF p = 3 THEN "ClientError" ELSE "",
                                            !.resume = IF p # 0 THEN "none"
                                                       ELSE StoreAt,
                                            !.runs0 = Len(Runs),
                                            !.members0 =
                                              IF p # 0 THEN -1
                                              ELSE cantidad_total_registros(
                                                     m.response_processing_id)]
                    /\ IF p = 2
                       THEN \* the count query failed
                            /\ pc' = "process_file_error"
                            /\ loc' = [loc EXCEPT !.file_id = m.file_id,
                                                  !.error_code = "EPGA001"]
                       ELSE IF p = 3
                       THEN \* Unzipfile.read_s3: list_objects_v2 failed
                            /\ pc' = RaisePc("ClientError", FALSE)
                            /\ loc' = loc
                       ELSE IF cantidad_total_registros(m.response_processing_id) > 0
                       THEN /\ pc' = "process_pending_files_and_send_to_queue"
                            /\ loc' = [loc EXCEPT !.file_id = m.file_id]
                       ELSE IF read_s3 = {}
                       THEN /\ pc' = "validate_s3_file_in_queue_message"
                            /\ loc' = [loc EXCEPT !.file_id = m.file_id,
                                          !.after = "normal_flow",
                                          !.result_state_validation = TRUE,
                                          !.result_zip_validation = FALSE,
                                          !.result_file_validation = FALSE]
                       ELSE /\ pc' = "process_update_db"
                            /\ loc' = [loc EXCEPT !.file_id = m.file_id,
                                          !.after = "normal_flow",
                                          !.result_state_validation = TRUE,
                                          !.result_zip_validation = TRUE,
                                          !.result_file_validation = TRUE]
     ELSE /\ pc' = "special_flow"
          /\ loc' = [loc EXCEPT !.file_id = m.file_id]
          /\ hist' = [hist EXCEPT !.dispatch = "first_arrival"]
          /\ UNCHANGED << ledger, faults >>
  /\ UNCHANGED << inputs, catalogo, s3, queues, event, injected >>

\* Actions.validate_s3_file_in_queue_message
validate_s3_file_in_queue_message ==
  /\ pc = "validate_s3_file_in_queue_message"
  /\ \E fv \in FaultVectors(3) :
       LET h == [hist EXCEPT !.keyExisted = s3.inbox] IN
       /\ faults' = faults + CountTrue(fv)
       /\ IF s3.inbox /\ ~fv[1]
          THEN \* the object was read
               /\ ~fv[2] /\ ~fv[3]
               /\ pc' = loc.after
               /\ hist' = [h EXCEPT !.s3check = "found"]
               /\ UNCHANGED sqs_process
          ELSE IF fv[2]
          THEN \* get_messages failed
               /\ ~fv[3]
               /\ pc' = RaisePc("ValueError", loc.inTry)
               /\ hist' = [h EXCEPT !.exc = "ValueError", !.s3check = "ValueError"]
               /\ UNCHANGED sqs_process
          ELSE \* receive_message returns at most one visible message
               \/ /\ ~fv[3]
                  /\ pc' = "exit"
                  /\ hist' = [h EXCEPT !.s3check = "no_message"]
                  /\ UNCHANGED sqs_process
               \/ \E d \in sqs_process \ InFlight :
                    /\ pc' = "exit"
                    /\ sqs_process' = IF fv[3] THEN sqs_process ELSE sqs_process \ {d}
                    /\ hist' = [h EXCEPT !.s3check = IF fv[3] THEN "delete_failed"
                                                     ELSE "drained"]
  /\ UNCHANGED << inputs, ledger, catalogo, s3, sqs_validate, sqs_consolidate,
                  sqs_emails, redrives, nextMsg, event, loc, injected >>

\* lambda_handler ends: a normal return lets the event source delete the
\* message; after sys.exit or a re-raised exception the message stays in the
\* source queue unless the code deleted it
lambda_handler_end ==
  /\ pc \in {"returned", "exit", "raised"}
  /\ (pc = "returned") => (loc.rec = Len(event))
  /\ pc' = "idle"
  /\ sqs_process' = IF pc = "returned" THEN sqs_process \ InFlight ELSE sqs_process
  /\ event' = << >>
  /\ loc' = LocInit
  /\ hist' = HistInit
  /\ UNCHANGED << inputs, ledger, catalogo, s3, sqs_validate, sqs_consolidate,
                  sqs_emails, redrives, nextMsg, injected, faults >>

(* ---------------------------- classification --------------------------- *)
\* format_name_file.check_prefix_esp
check_prefix_esp == archive.prefix = "RE_ESP_"

\* Specialflow.special_flow with Specialflow.validate_file_in_database
special_flow ==
  /\ pc = "special_flow"
  /\ \E f \in Outcomes :
       /\ faults' = faults + B2N(f)
       /\ loc' = [loc EXCEPT !.inTry = TRUE]
       /\ hist' = [hist EXCEPT !.lookup = IF f THEN "error" ELSE "clean"]
       /\ pc' = IF f THEN "returned"
                ELSE IF check_prefix_esp THEN "process_special_file"
                ELSE "process_standard_file"
  /\ UNCHANGED << inputs, ledger, catalogo, s3, queues, event, injected >>

\* Specialflow.process_standard_file
process_standard_file ==
  /\ pc = "process_standard_file"
  /\ \E f \in Outcomes :
       /\ faults' = faults + B2N(f)
       /\ IF f
          THEN \* file_id=id_archivo of a name that was never bound
               /\ pc' = RaisePc("UnboundLocalError", loc.inTry)
               /\ hist' = [hist EXCEPT !.exc = "UnboundLocalError", !.lookup = "error"]
               /\ loc' = loc
          ELSE IF cgd_archivos.exists
          THEN /\ pc' = "normal_flow"
               /\ loc' = [loc EXCEPT !.file_id = FileId,
                             !.state = cgd_archivos.estado,
                             !.result_state_validation = FALSE,
                             !.result_zip_validation = FALSE,
                             !.result_file_validation = FALSE]
               /\ hist' = hist
          ELSE /\ pc' = "errors"
               /\ loc' = [loc EXCEPT !.error_code = "EICP001"]
               /\ hist' = hist
  /\ UNCHANGED << inputs, ledger, catalogo, s3, queues, event, injected >>

\* Specialflow.process_special_file
process_special_file ==
  /\ pc = "process_special_file"
  /\ IF ~validate_well_formed_esp(archive.key, start_special_files, end_special_files)
     THEN /\ pc' = "errors"
          /\ loc' = [loc EXCEPT !.error_code = "EICP007"]
          /\ faults' = faults
     ELSE \E f \in Outcomes :
          /\ faults' = faults + B2N(f)
          /\ IF cgd_archivos.exists /\ ~f
             THEN /\ pc' = "normal_flow"
                  /\ loc' = [loc EXCEPT !.file_id = FileId,
                                !.state = cgd_archivos.estado,
                                !.result_state_validation = FALSE,
                                !.result_zip_validation = FALSE,
                                !.result_file_validation = FALSE]
             ELSE /\ pc' = "insert_new_file_record"
                  /\ loc' = loc
  /\ UNCHANGED << inputs, ledger, catalogo, s3, queues, event, hist, injected >>

\* a FileRecord inserted in a state that is not ENVIADO
NewFileRecordCargando ==
  [exists |-> TRUE, estado |-> CARGANDO, contador |-> 0]

\* the CGDArchivos row built by insert_new_file_record: estado="ENVIADO",
\* contador_intentos_cargue=0, id_archivo from format_id_archivo
NewFileRecord ==
  [exists |-> TRUE, estado |-> ESTADO_ENVIADO, contador |-> 0]

\* Specialflow.insert_new_file_record
insert_new_file_record ==
  /\ pc = "insert_new_file_record"
  /\ \E f \in Outcomes :
       /\ faults' = faults + B2N(f)
       /\ hist' = [hist EXCEPT !.bootstrap =
                     IF cgd_archivos.exists THEN "duplicate"
                     ELSE IF f THEN "failed" ELSE "inserted"]
       /\ IF f \/ cgd_archivos.exists
          THEN \* the insert failed (also on a duplicate id_archivo)
               /\ pc' = "process_file_error"
               /\ loc' = [loc EXCEPT !.file_id = FileId, !.error_code = "EICP006"]
               /\ UNCHANGED cgd_archivos
          ELSE /\ cgd_archivos' = NewFileRecord
               /\ pc' = "normal_flow"
               /\ loc' = [loc EXCEPT !.file_id = FileId, !.state = "ENVIADO",
                             !.result_state_validation = TRUE,
                             !.result_zip_validation = FALSE,
                             !.result_file_validation = FALSE]
  /\ UNCHANGED << inputs, cgd_archivo_estados, cgd_rta_procesamiento,
                  cgd_rta_pro_archivos, catalogo, s3, queues, event, injected >>

(* ---------------------------- normal flow ------------------------------ *)
\* a state check that lets every state through
validate_states_any(estado) == TRUE

\* Actions.validate_states: TRUE, or the EICP002 reject
validate_states(estado) == estado \in estados_list

\* Actions.normal_flow up to its first step
normal_flow ==
  /\ pc = "normal_flow"
  /\ hist' = [hist EXCEPT
       !.nfState = IF cgd_archivos.exists THEN cgd_archivos.estado ELSE "absent",
       !.nfChecked = ~loc.result_state_validation]
  /\ IF ~loc.result_state_validation /\ ~validate_states(loc.state)
     THEN /\ pc' = "errors"
          /\ loc' = [loc EXCEPT !.error_code = "EICP002"]
     ELSE /\ pc' = IF ~loc.result_zip_validation THEN "process_file_and_update_db"
                   ELSE IF ~loc.result_file_validation THEN "unzip_file_data"
                   ELSE "check_unzipped_files"
          /\ loc' = [loc EXCEPT !.result_state_validation = TRUE]
  /\ UNCHANGED << inputs, ledger, catalogo, s3, queues, event, injected, faults >>

\* Actions.process_file_and_update_db with S3Service.move_file: move_file
\* returns its error flag, which is True after a failed copy and the (truthy)
\* delete_object response after a copy, so "not is_moved" never holds
process_file_and_update_db ==
  /\ pc = "process_file_and_update_db"
  /\ \E o \in {"moved", "copy_failed", "delete_failed"} :
       /\ (o = "moved") => s3.inbox
       /\ (o = "delete_failed") => s3.inbox
       /\ (o = "copy_failed") => (~s3.inbox \/ faults < MaxFaults)
       /\ (o = "delete_failed") => faults < MaxFaults
       /\ faults' = faults + B2N(o = "delete_failed" \/ (o = "copy_failed" /\ s3.inbox))
       /\ s3' = IF o = "moved" THEN [s3 EXCEPT !.inbox = FALSE, !.zip = TRUE]
                ELSE IF o = "delete_failed" THEN [s3 EXCEPT !.zip = TRUE]
                ELSE s3
       /\ hist' = Did(hist, {"move"})
  /\ pc' = "process_update_db"
  /\ loc' = [loc EXCEPT !.after = "unzip_file_data"]
  /\ UNCHANGED << inputs, ledger, catalogo, queues, event, injected >>

\* Actions.process_update_db: response type from the archive name
tipo_respuesta ==
  IF archive.prefix = "RE_PRO_" /\ archive.rev THEN "02"
  ELSE IF archive.prefix = "RE_PRO_" /\ ~archive.rev THEN "01"
  ELSE IF archive.prefix = "RE_ESP_" THEN "03"
  ELSE ""

MaxIdRta ==
  IF HasRun THEN Runs[Len(Runs)].id_rta_procesamiento ELSE 0

\* a variant of the insertion that does not read the state of the latest run
insert_rta_unconditional(tipo) ==
  Append(Runs, [id_rta_procesamiento |-> MaxIdRta + 1, estado |-> "INICIADO",
                tipo_respuesta |-> tipo, contador |-> 1, codigo_error |-> ""])

\* a variant of the insertion that numbers the run like the latest one
insert_rta_same_number(tipo) ==
  IF ~HasRun \/ Runs[Len(Runs)].estado # "PENDIENTE_REPROCESO"
  THEN Append(Runs, [id_rta_procesamiento |-> IF HasRun THEN MaxIdRta ELSE 1,
                     estado |-> "INICIADO", tipo_respuesta |-> tipo,
                     contador |-> 1, codigo_error |-> ""])
  ELSE Runs

\* custom_queries.insert_rta_procesamiento: a run INICIADO with counter 1 and
\* the next sequence number, unless the latest run is PENDIENTE_REPROCESO
insert_rta_procesamiento(tipo) ==
  IF ~HasRun \/ Runs[Len(Runs)].estado # "PENDIENTE_REPROCESO"
  THEN Append(Runs, [id_rta_procesamiento |-> MaxIdRta + 1, estado |-> "INICIADO",
                     tipo_respuesta |-> tipo, contador |-> 1, codigo_error |-> ""])
  ELSE Runs

\* Actions.process_update_db
process_update_db ==
  /\ pc = "process_update_db"
  /\ \E p \in 0..4 :
       /\ (p # 0) => (faults < MaxFaults)
       /\ faults' = faults + B2N(p # 0)
       /\ IF p = 1 \/ ~cgd_archivos.exists
          THEN /\ p \in {0, 1}
               /\ UNCHANGED ledger
               /\ hist' = hist
          ELSE /\ cgd_archivo_estados' =
                    IF p = 2 THEN cgd_archivo_estados
                    ELSE Append(cgd_archivo_estados,
                           [estado_inicial |-> cgd_archivos.estado,
                            estado_final |-> CARGANDO])
               /\ cgd_archivos' =
                    IF p \in {2, 3} THEN cgd_archivos
                    ELSE [cgd_archivos EXCEPT !.estado = CARGANDO,
                                              !.contador = Sat(@)]
               /\ cgd_rta_procesamiento' =
                    IF p \in {2, 3, 4} THEN Runs
                    ELSE insert_rta_procesamiento(tipo_respuesta)
               /\ UNCHANGED cgd_rta_pro_archivos
               /\ hist' = Did(hist, (IF p # 2 THEN {"history"} ELSE {}) \cup
                                      (IF p = 0 /\ cgd_rta_procesamiento' # Runs
                                       THEN {"run"} ELSE {}))
       /\ IF p # 0 \/ ~cgd_archivos.exists
          THEN /\ pc' = "process_file_error"
               /\ loc' = [loc EXCEPT !.error_code = "EICP006"]
          ELSE /\ pc' = loc.after
               /\ loc' = loc
  /\ UNCHANGED << inputs, catalogo, s3, queues, event, injected >>

Members == 1..archive.n

\* the keys ending in ".zip" that list_objects_v2 returns for the processing
\* prefix: the archive of this file and the archive of another file.  The
\* listing is ordered by key, so either may be the first
ZipKeys(store) ==
  (IF store.zip THEN {"own"} ELSE {}) \cup (IF store.other = "zip" THEN {"other"} ELSE {})

\* s3.delete_object(Key=zip_file_key)
DeleteZip(store, zip_file_key) ==
  IF zip_file_key = "own" THEN [store EXCEPT !.zip = FALSE]
  ELSE [store EXCEPT !.other = "expanded"]

\* Unzipfile.unzip_file_data: list the processing prefix, take the zip,
\* download, expand, upload the members, delete the zip.  Only ValueError,
\* KeyError and FileNotFoundError are turned into (False, ""); a client
\* error of the object store leaves the function as an exception
unzip_file_data ==
  /\ pc = "unzip_file_data"
  /\ \E o \in {"ok", "no_zip", "list_failed", "download_failed",
               "upload_failed", "delete_failed"}, zip_file_key \in ZipKeys(s3) \cup {"None"} :
       /\ (zip_file_key = "None") <=> (ZipKeys(s3) = {})
       /\ (o = "no_zip") <=> (zip_file_key = "None")
       /\ (o \notin {"ok", "no_zip"}) => (faults < MaxFaults)
       /\ faults' = faults + B2N(o \notin {"ok", "no_zip"})
       /\ CASE o = "ok" ->
                 /\ s3' = DeleteZip([s3 EXCEPT !.folder = Members], zip_file_key)
                 /\ pc' = "check_unzipped_files"
                 /\ hist' = Did(hist, {"expand"})
            [] o = "no_zip" ->
                 /\ s3' = s3
                 /\ pc' = "rejected_state_errors"
                 /\ hist' = hist
            [] o \in {"list_failed", "download_failed"} ->
                 /\ s3' = s3
                 /\ pc' = RaisePc("ClientError", loc.inTry)
                 /\ hist' = [hist EXCEPT !.exc = "ClientError"]
            [] o = "upload_failed" ->
                 /\ \E j \in 0..(archive.n - 1) : s3' = [s3 EXCEPT !.folder = 1..j]
                 /\ pc' = RaisePc("ClientError", loc.inTry)
                 /\ hist' = [hist EXCEPT !.exc = "ClientError"]
            [] o = "delete_failed" ->
                 /\ s3' = [s3 EXCEPT !.folder = Members]
                 /\ pc' = RaisePc("ClientError", loc.inTry)
                 /\ hist' = Did([hist EXCEPT !.exc = "ClientError"], {"expand"})
       /\ loc' = [loc EXCEPT !.error_code = IF o = "no_zip" THEN "EICP003" ELSE @]
  /\ UNCHANGED << inputs, ledger, catalogo, queues, event, injected >>

\* Verifyfiles.verify_files_data on the working folder: << valido, tipo >>
verify_files_data(folder) ==
  LET cantidad_archivos == Cardinality(folder) IN
  IF cantidad_archivos = 5 /\ archive.kw THEN << TRUE, "01" >>
  ELSE IF cantidad_archivos = 3 /\ archive.kw THEN << TRUE, "02" >>
  ELSE IF cantidad_archivos = 2 /\ archive.kw THEN << TRUE, "03" >>
  ELSE << FALSE, "00" >>

\* a variant of the comparison that lets through what it should stop
TipoRespuestaEqual(run, tipo) == run.tipo_respuesta = tipo

\* check_unzipped_files: not result[0]["tipo_respuesta"] == tipo
TipoRespuestaDiffers(run, tipo) == ~(run.tipo_respuesta = tipo)

\* Actions.check_unzipped_files
check_unzipped_files ==
  /\ pc = "check_unzipped_files"
  /\ \E fv \in FaultVectors(3) :
       /\ faults' = faults + CountTrue(fv)
       /\ LET v == verify_files_data(s3.folder) IN
          IF fv[2]
          THEN \* list_objects_v2 of verify_files_data failed
               /\ ~fv[3]
               /\ pc' = RaisePc("ClientError", loc.inTry)
               /\ hist' = [hist EXCEPT !.exc = "ClientError"]
               /\ loc' = loc
          ELSE IF fv[1] \/ ~cgd_archivos.exists
          THEN \* the log line of the else branch reads the unbound name query
               /\ ~fv[3]
               /\ pc' = RaisePc("UnboundLocalError", loc.inTry)
               /\ hist' = [hist EXCEPT !.exc = "UnboundLocalError"]
               /\ loc' = loc
          ELSE IF fv[3] \/ ~HasRun
          THEN \* the log line adds the bool error flag to a str
               /\ pc' = RaisePc("TypeError", loc.inTry)
               /\ hist' = [hist EXCEPT !.exc = "TypeError"]
               /\ loc' = loc
          ELSE IF TipoRespuestaDiffers(Runs[Len(Runs)], v[2])
          THEN /\ pc' = "rejected_state_errors"
               /\ loc' = [loc EXCEPT !.error_code = "EICP004",
                                     !.state = cgd_archivos.estado]
               /\ hist' = hist
          ELSE /\ pc' = "validate_files_and_register_indb"
               /\ loc' = [loc EXCEPT !.valido = v[1], !.tipo = v[2],
                                     !.state = cgd_archivos.estado]
               /\ hist' = hist
  /\ UNCHANGED << inputs, ledger, catalogo, s3, queues, event, injected >>

\* a variant of the name check that lets every listing through
files_unchecked(a) == TRUE

\* validate_files_and_register_indb: the first loop over archivos, which
\* compares the text between the last "_" and the "-" of each member's name
\* with that of the archive's name
files_agree(a) == a.pfx

\* Actions.validate_files_and_register_indb up to the registration loop
validate_files_and_register_indb ==
  /\ pc = "validate_files_and_register_indb"
  /\ \E f \in Outcomes :
       /\ faults' = faults + B2N(f)
       /\ IF f
          THEN \* list_objects_v2 of read_s3 failed
               /\ pc' = RaisePc("ClientError", loc.inTry)
               /\ hist' = [hist EXCEPT !.exc = "ClientError"]
               /\ loc' = loc
          ELSE IF loc.valido /\ archive.re
          THEN IF ~files_agree(archive)
               THEN /\ pc' = "rejected_state_errors"
                    /\ loc' = [loc EXCEPT !.error_code = "EICP004"]
                    /\ hist' = hist
               ELSE /\ pc' = "register_member"
                    /\ loc' = [loc EXCEPT !.i = 1]
                    /\ hist' = hist
          ELSE /\ pc' = "rejected_state_errors"
               /\ loc' = [loc EXCEPT !.error_code = "EICP005"]
               /\ hist' = hist
  /\ UNCHANGED << inputs, ledger, catalogo, s3, queues, event, injected >>

\* a variant of the member row, linked to the run that would come next
MemberRowNextRun(nombre) ==
  [id_rta_procesamiento |-> MaxIdRta + 1, nombre_archivo |-> nombre,
   estado |-> "PENDIENTE_INICIO"]

\* a variant of the member row, inserted as already sent
MemberRowEnviado(nombre) ==
  [id_rta_procesamiento |-> MaxIdRta, nombre_archivo |-> nombre,
   estado |-> "ENVIADO"]

\* custom_queries.insert_rta_pro_archivos: the row is linked to the latest
\* run; the primary key is (id_archivo, id_rta_procesamiento, nombre_archivo)
MemberRow(nombre) ==
  [id_rta_procesamiento |-> MaxIdRta, nombre_archivo |-> nombre,
   estado |-> "PENDIENTE_INICIO"]

DuplicateMember(nombre) ==
  \E a \in cgd_rta_pro_archivos :
     a.id_rta_procesamiento = MaxIdRta /\ a.nombre_archivo = nombre

\* one pass of the registration loop of validate_files_and_register_indb:
\* insert the MemberFile, read the run id (consult_id_rta_procesamiento),
\* publish the validate-request
register_member ==
  /\ pc = "register_member"
  /\ \E fv \in FaultVectors(3) :
       /\ faults' = faults + CountTrue(fv)
       /\ IF fv[1] \/ DuplicateMember(loc.i) \/ ~HasRun
          THEN \* the insert failed
               /\ ~fv[2] /\ ~fv[3]
               /\ pc' = "process_file_error"
               /\ loc' = [loc EXCEPT !.error_code = "EICP006"]
               /\ hist' = [hist EXCEPT !.regFailed = loc.i]
               /\ UNCHANGED << cgd_rta_pro_archivos, sqs_validate >>
          ELSE /\ cgd_rta_pro_archivos' = cgd_rta_pro_archivos \cup { MemberRow(loc.i) }
               /\ IF fv[2]
                  THEN \* consult_id_rta_procesamiento got no row
                       /\ ~fv[3]
                       /\ pc' = "process_file_error"
                       /\ loc' = [loc EXCEPT !.error_code = "EICP006"]
                       /\ sqs_validate' = sqs_validate
                       /\ hist' = Did(hist, {"member"})
                  ELSE /\ sqs_validate' =
                            IF fv[3] THEN sqs_validate
                            ELSE Publish(sqs_validate, ValidateRequest(MaxIdRta, loc.i))
                       /\ hist' = Did(hist, {"member"} \cup
                                          (IF fv[3] THEN {} ELSE {"validate"}))
                       /\ loc' = [loc EXCEPT !.i = @ + 1]
                       /\ pc' = IF loc.i + 1 \in s3.folder THEN "register_member"
                                ELSE "update_all_enviado"
  /\ UNCHANGED << inputs, cgd_archivos, cgd_archivo_estados, cgd_rta_procesamiento,
                  catalogo, s3, sqs_process, sqs_consolidate, sqs_emails, redrives,
                  nextMsg, event, injected >>

\* DatabaseService.update_all on CGDRtaProArchivos: every PENDIENTE_INICIO
\* row of the file becomes ENVIADO
FlipEnviado ==
  { [a EXCEPT !.estado = "ENVIADO"] : a \in cgd_rta_pro_archivos }

\* the bulk flip that ends validate_files_and_register_indb
update_all_enviado ==
  /\ pc = "update_all_enviado"
  /\ \E f \in Outcomes :
       /\ faults' = faults + B2N(f)
       /\ IF f
          THEN /\ pc' = "process_file_error"
               /\ loc' = [loc EXCEPT !.error_code = "EICP006"]
               /\ UNCHANGED cgd_rta_pro_archivos
          ELSE /\ cgd_rta_pro_archivos' = FlipEnviado
               /\ pc' = "validate_and_consolidate_response_process"
               /\ loc' = loc
  /\ UNCHANGED << inputs, cgd_archivos, cgd_archivo_estados, cgd_rta_procesamiento,
                  catalogo, s3, queues, event, hist, injected >>

(* ---------------------------- consolidation ---------------------------- *)
\* custom_queries.query_data_acg_rta_procesamiento_estado_enviado, as run by
\* DatabaseService.query: the NOT EXISTS subquery names no table after FROM,
\* the database rejects the statement, and query() returns ([], True, text)
query_data_acg_rta_procesamiento_estado_enviado == << >>

\* custom_queries.update_query_estado_rta_procesamiento_enviado: the latest
\* run becomes ENVIADO unless it already is
update_query_estado_rta_procesamiento_enviado ==
  IF HasRun /\ Runs[Len(Runs)].estado # "ENVIADO"
  THEN [Runs EXCEPT ![Len(Runs)].estado = "ENVIADO"]
  ELSE Runs

\* Actions.validate_and_consolidate_response_process
validate_and_consolidate_response_process ==
  /\ pc = "validate_and_consolidate_response_process"
  /\ LET entry == IF HasRun THEN Runs[Len(Runs)].estado ELSE "no_run"
         h == [hist EXCEPT !.consEntry = entry]
     IN
     IF query_data_acg_rta_procesamiento_estado_enviado # << >>
     THEN /\ pc' = "returned"
          /\ hist' = [h EXCEPT !.success = TRUE]
          /\ UNCHANGED << cgd_rta_procesamiento, sqs_consolidate, loc, faults >>
     ELSE \E fv \in FaultVectors(3) :
          /\ faults' = faults + CountTrue(fv)
          /\ IF fv[1]
             THEN \* the latest-run query failed
                  /\ ~fv[2] /\ ~fv[3]
                  /\ pc' = "process_file_error"
                  /\ loc' = [loc EXCEPT !.error_code = "EICP006"]
                  /\ hist' = h
                  /\ UNCHANGED << cgd_rta_procesamiento, sqs_consolidate >>
             ELSE IF ~HasRun
             THEN \* result[0] of an empty result
                  /\ ~fv[2] /\ ~fv[3]
                  /\ pc' = RaisePc("IndexError", loc.inTry)
                  /\ loc' = loc
                  /\ hist' = [h EXCEPT !.exc = "IndexError"]
                  /\ UNCHANGED << cgd_rta_procesamiento, sqs_consolidate >>
             ELSE /\ sqs_consolidate' =
                       IF fv[2] THEN sqs_consolidate
                       ELSE Append(sqs_consolidate, MaxIdRta)
                  /\ cgd_rta_procesamiento' =
                       IF fv[3] THEN Runs
                       ELSE update_query_estado_rta_procesamiento_enviado
                  /\ hist' = Did([h EXCEPT
                                    !.consPublished = @ + B2N(~fv[2]),
                                    !.consWrites = @ + B2N(cgd_rta_procesamiento' # Runs),
                                    !.success = ~fv[3]],
                                 IF fv[2] THEN {} ELSE {"consolidate"})
                  /\ IF fv[3]
                     THEN /\ pc' = "process_file_error"
                          /\ loc' = [loc EXCEPT !.error_code = "EICP006"]
                     ELSE /\ pc' = "returned"
                          /\ loc' = loc
  /\ UNCHANGED << inputs, cgd_archivos, cgd_archivo_estados, cgd_rta_pro_archivos,
                  catalogo, s3, sqs_process, sqs_validate, sqs_emails, redrives,
                  nextMsg, event, injected >>

(* ---------------------------- resume path ------------------------------ *)
\* a variant of the selection that does not read the state of the row
PendingRowsAnyState(archivos) ==
  { a \in cgd_rta_pro_archivos : a.nombre_archivo \in archivos }

\* the MemberFile rows that process_pending_files_and_send_to_queue
\* republishes: type of a listed member, still PENDIENTE_INICIO
PendingRows(archivos) ==
  { a \in cgd_rta_pro_archivos :
      a.nombre_archivo \in archivos /\ a.estado = "PENDIENTE_INICIO" }

\* one send per listed member and matching row; every body carries the id
\* of the latest run
RECURSIVE PublishAll(_, _, _)
PublishAll(q, rpid, rows) ==
  IF rows = {} THEN q
  ELSE LET x == CHOOSE y \in rows : TRUE
       IN PublishAll(Publish(q, ValidateRequest(rpid, x.nombre_archivo)), rpid,
                     rows \ {x})

\* Actions.process_pending_files_and_send_to_queue
process_pending_files_and_send_to_queue ==
  /\ pc = "process_pending_files_and_send_to_queue"
  /\ \E fv \in FaultVectors(3) :
       /\ IF fv[1]
          THEN \* the latest-run query failed
               /\ ~fv[2] /\ ~fv[3]
               /\ faults' = faults + 1
               /\ pc' = "process_file_error"
               /\ loc' = [loc EXCEPT !.error_code = "EICP006"]
               /\ UNCHANGED << cgd_rta_pro_archivos, sqs_validate, hist >>
          ELSE LET sent == IF fv[2] THEN {} ELSE PendingRows(read_s3)
               IN
               \E lost \in SUBSET sent :
                 /\ Cardinality(lost) <= 1
                 /\ (lost # {}) => (faults + CountTrue(fv) < MaxFaults)
                 /\ faults' = faults + CountTrue(fv) + Cardinality(lost)
                 /\ sqs_validate' = PublishAll(sqs_validate, MaxIdRta, sent \ lost)
                 /\ cgd_rta_pro_archivos' =
                      IF fv[3] THEN cgd_rta_pro_archivos ELSE FlipEnviado
                 /\ hist' = Did(hist, IF sent \ lost # {} THEN {"validate"} ELSE {})
                 /\ pc' = "validate_and_consolidate_response_process"
                 /\ loc' = loc
  /\ UNCHANGED << inputs, cgd_archivos, cgd_archivo_estados, cgd_rta_procesamiento,
                  catalogo, s3, sqs_process, sqs_consolidate, sqs_emails, redrives,
                  nextMsg, event, injected >>

(* ---------------------------- error engine ----------------------------- *)
\* the re-drive envelope built by the retry path of process_file_error:
\* bucket_name, file_name, is_reprocessing and, with a run, file_id and
\* response_processing_id; it has no "Records" key
new_message(n, rpid) ==
  [n |-> n, Records |-> FALSE, file_id |-> IF rpid # 0 THEN FileId ELSE 0,
   response_processing_id |-> rpid, is_reprocessing |-> TRUE]

\* S3Service.move_file of the archive from the processing prefix to the
\* rejected prefix
MoveZipToRejected(store, failed) ==
  IF store.zip /\ ~failed THEN [store EXCEPT !.zip = FALSE, !.rejected = TRUE]
  ELSE store

\* the only decision of process_file_error: the catalog's flag is read and
\* then overwritten with True before the test
TakesRetryPath(aplica_reprogramar, contador_intentos_cargue) ==
  LET aplica == TRUE
  IN aplica /\ contador_intentos_cargue < NumberRetries

\* ErrorHandling.process_file_error.  Calls, in order: 1 get_by_id of the
\* FileRecord, 2 latest-run query, 3 get_by_id of the catalog entry, 4 update
\* of the run's error code, 5 update of the FileRecord, 6 insert of the
\* history row, 7 update of the run's state, then on the retry path 8 delete
\* of the source message, 9 send of the re-drive, 10 send of the notification,
\* and on the terminal path 8 send of the notification, 9 move of the archive,
\* 10 delete of the source message.  Only the results of 1-3 are looked at.
process_file_error ==
  /\ pc = "process_file_error"
  /\ \E fv \in EngineFaultVectors(10) :
       LET code == loc.error_code
           h0 == [hist EXCEPT !.engine = "process_file_error", !.code = code,
                              !.retryable = catalogo[code],
                              !.engFault = CountTrue(fv) > 0]
       IN
       /\ faults' = faults
       /\ IF fv[1] \/ ~cgd_archivos.exists
          THEN \* strptime of str(None)
               /\ \A k \in 4..10 : ~fv[k]
               /\ pc' = RaisePc("ValueError", loc.inTry)
               /\ hist' = [h0 EXCEPT !.branch = "ValueError", !.exc = "ValueError"]
               /\ UNCHANGED << ledger, s3, queues >>
          ELSE IF fv[2] \/ ~HasRun
          THEN \* CGDArchivos(model=..., record_id=..., id_name=..., updates=...)
               /\ \A k \in 4..10 : ~fv[k]
               /\ pc' = RaisePc("TypeError", loc.inTry)
               /\ hist' = [h0 EXCEPT !.branch = "TypeError", !.exc = "TypeError",
                                     !.cnt = cgd_archivos.contador]
               /\ UNCHANGED << ledger, s3, queues >>
          ELSE \E k1 \in FirstRows, k2 \in FirstRows :
               LET retry == TakesRetryPath(catalogo[code], cgd_archivos.contador)
                   final == IF retry THEN ESTADO_PROCESA_PENDIENTE_REINTENTO
                            ELSE ESTADO_PROCESAMIENTO_FALLIDO
                   runs1 == IF fv[4] THEN Runs
                            ELSE [Runs EXCEPT ![k1].codigo_error = code]
                   sent == retry /\ ~fv[9]
                   gone == IF retry THEN ~fv[8] ELSE ~fv[10]
                   mail == IF retry THEN "PC012" ELSE "PC013"
                   mailed == IF retry THEN ~fv[10] ELSE ~fv[8]
               IN
               /\ cgd_rta_procesamiento' =
                    IF fv[7] THEN runs1
                    ELSE [runs1 EXCEPT ![k2].estado =
                            IF retry THEN "PENDIENTE_REINTENTO" ELSE "FALLIDO"]
               /\ cgd_archivos' =
                    IF fv[5] THEN cgd_archivos ELSE [cgd_archivos EXCEPT !.estado = final]
               /\ cgd_archivo_estados' =
                    IF fv[6] THEN cgd_archivo_estados
                    ELSE Append(cgd_archivo_estados,
                           [estado_inicial |-> cgd_archivos.estado, estado_final |-> final])
               /\ UNCHANGED cgd_rta_pro_archivos
               /\ sqs_process' =
                    (IF gone THEN sqs_process \ { event[1] } ELSE sqs_process)
                      \cup (IF sent THEN { new_message(nextMsg, MaxIdRta) } ELSE {})
               /\ nextMsg' = nextMsg + B2N(sent)
               /\ redrives' = IF sent THEN Sat(redrives) ELSE redrives
               /\ sqs_emails' = IF mailed THEN [sqs_emails EXCEPT ![mail] = Sat(@)]
                                ELSE sqs_emails
               /\ s3' = IF retry THEN s3 ELSE MoveZipToRejected(s3, fv[9])
               /\ UNCHANGED << sqs_validate, sqs_consolidate >>
               /\ pc' = "exit"
               /\ hist' = [h0 EXCEPT !.branch = IF retry THEN "retry" ELSE "fail",
                                     !.cnt = cgd_archivos.contador,
                                     !.hadRun = TRUE,
                                     !.redrive = B2N(sent),
                                     !.redriveIds = sent,
                                     !.notif = IF mailed THEN mail ELSE "",
                                     !.deleted = gone]
  /\ UNCHANGED << inputs, catalogo, event, loc, injected >>

\* SqsService.delete_message returns its error flag: False after the message
\* was deleted.  ErrorHandling.errors ends with sys.exit(0) when that flag is
\* truthy and returns None otherwise
ErrorsEnd(delete_error) == IF delete_error THEN "exit" ELSE "returned"

\* a normal_flow that goes on to its first step after the EICP002 reject
\* came back with None
AfterErrorsGoesOn(code) ==
  IF code = "EICP002" THEN "process_file_and_update_db" ELSE "returned"

\* where control goes when ErrorHandling.errors returns None: validate_states
\* hands the None to normal_flow, which then skips every step;
\* rejected_state_errors, process_standard_file and process_special_file
\* return to their callers, which return in turn
AfterErrors(code) == "returned"

\* ErrorHandling.errors.  Calls, in order: 1 get_all of the catalog entry,
\* 2 move of the archive from the inbox to the rejected prefix, 3 send of the
\* notification, 4 get_messages on the source queue, 5 delete_message
errors ==
  /\ pc = "errors"
  /\ \E fv \in FaultVectors(5) :
       LET code == loc.error_code
           h0 == [hist EXCEPT !.engine = "errors", !.code = code,
                              !.engFault = CountTrue(fv) > 0]
       IN
       /\ faults' = faults + CountTrue(fv)
       /\ IF fv[1]
          THEN /\ \A k \in 2..5 : ~fv[k]
               /\ pc' = AfterErrors(code)
               /\ hist' = [h0 EXCEPT !.branch = "returned"]
               /\ UNCHANGED << s3, sqs_process, sqs_emails >>
          ELSE /\ s3' = IF s3.inbox /\ ~fv[2]
                        THEN [s3 EXCEPT !.inbox = FALSE, !.rejected = TRUE]
                        ELSE s3
               /\ sqs_emails' = IF fv[3] THEN sqs_emails
                                ELSE [sqs_emails EXCEPT !["PC009"] = Sat(@)]
               /\ IF fv[4]
                  THEN \* ValueError, caught in errors itself
                       /\ ~fv[5]
                       /\ pc' = AfterErrors(code)
                       /\ hist' = [h0 EXCEPT !.branch = "returned",
                                             !.notif = IF fv[3] THEN "" ELSE "PC009"]
                       /\ UNCHANGED sqs_process
                  ELSE \/ \* no visible message: ValueError, caught in errors itself
                          /\ ~fv[5]
                          /\ pc' = AfterErrors(code)
                          /\ hist' = [h0 EXCEPT !.branch = "returned",
                                                !.notif = IF fv[3] THEN "" ELSE "PC009"]
                          /\ UNCHANGED sqs_process
                       \/ \E d \in sqs_process \ InFlight :
                            /\ sqs_process' = IF fv[5] THEN sqs_process
                                              ELSE sqs_process \ {d}
                            /\ pc' = IF ErrorsEnd(fv[5]) = "exit" THEN "exit"
                                     ELSE AfterErrors(code)
                            /\ hist' = [h0 EXCEPT !.branch = ErrorsEnd(fv[5]),
                                                  !.notif = IF fv[3] THEN "" ELSE "PC009",
                                                  !.deleted = ~fv[5]]
  /\ UNCHANGED << inputs, ledger, catalogo, sqs_validate, sqs_consolidate, redrives,
                  nextMsg, event, loc, injected >>

(* ---------------------------- reject path ------------------------------ *)
\* Unzipfile.move_folder of the entry read_s3 named, to the rejected prefix
move_folder(store) ==
  IF store.zip THEN [store EXCEPT !.zip = FALSE, !.rejected = TRUE]
  ELSE [store EXCEPT !.folder = {}, !.rejected = TRUE]

\* Actions.rejected_state_errors.  Calls, in order: 1 update of the run,
\* 2 get_all of the FileRecord, 3 insert of the history row, 4 update of the
\* FileRecord, 5 read_s3, 6 move_folder; then ErrorHandling.errors
rejected_state_errors ==
  /\ pc = "rejected_state_errors"
  /\ \E fv \in FaultVectors(6) :
       /\ faults' = faults + CountTrue(fv)
       /\ LET p == IF \E k \in 1..6 : fv[k]
                   THEN CHOOSE k \in 1..6 : fv[k] /\ \A j \in 1..(k - 1) : ~fv[j]
                   ELSE 0
              fileRow == cgd_archivos.exists
          IN
          /\ CountTrue(fv) <= 1
          /\ IF ~HasRun
             THEN \* _find_record_by_id finds no run
                  /\ p = 0
                  /\ pc' = RaisePc("ValueError", loc.inTry)
                  /\ hist' = [hist EXCEPT !.exc = "ValueError"]
                  /\ loc' = loc
                  /\ UNCHANGED << ledger, s3 >>
             ELSE IF p = 1
             THEN /\ pc' = "process_file_error"
                  /\ loc' = [loc EXCEPT !.error_code = "EICP006"]
                  /\ hist' = hist
                  /\ UNCHANGED << ledger, s3 >>
             ELSE \E k \in FirstRows :
                  /\ cgd_rta_procesamiento' = [Runs EXCEPT ![k].estado = "RECHAZADO"]
                  /\ UNCHANGED cgd_rta_pro_archivos
                  /\ IF p = 2 \/ ~fileRow
                     THEN \* result[0][0] of an empty result
                          /\ p \in {0, 2}
                          /\ pc' = RaisePc("IndexError", loc.inTry)
                          /\ hist' = [hist EXCEPT !.exc = "IndexError"]
                          /\ loc' = loc
                          /\ UNCHANGED << cgd_archivos, cgd_archivo_estados, s3 >>
                     ELSE /\ cgd_archivo_estados' =
                               IF p = 3 THEN cgd_archivo_estados
                               ELSE Append(cgd_archivo_estados,
                                      [estado_inicial |-> cgd_archivos.estado,
                                       estado_final |-> ESTADO_PROCESAMIENTO_RECHAZADO])
                          /\ cgd_archivos' =
                               IF p \in {3, 4} THEN cgd_archivos
                               ELSE [cgd_archivos EXCEPT
                                       !.estado = ESTADO_PROCESAMIENTO_RECHAZADO,
                                       !.contador = Sat(@)]
                          /\ IF p \in {3, 4}
                             THEN /\ pc' = "process_file_error"
                                  /\ loc' = [loc EXCEPT !.error_code = "EICP006"]
                                  /\ hist' = hist
                                  /\ s3' = s3
                             ELSE IF p \in {5, 6}
                             THEN \* list_objects_v2 or a copy / delete failed
                                  /\ pc' = RaisePc("ClientError", loc.inTry)
                                  /\ hist' = [hist EXCEPT !.exc = "ClientError"]
                                  /\ loc' = loc
                                  /\ s3' = s3
                             ELSE IF carpeta_mas_reciente = "None"
                             THEN \* FOLDER_PROCESSING + None
                                  /\ pc' = RaisePc("TypeError", loc.inTry)
                                  /\ hist' = [hist EXCEPT !.exc = "TypeError"]
                                  /\ loc' = loc
                                  /\ s3' = s3
                             ELSE /\ pc' = "errors"
                                  /\ hist' = hist
                                  /\ loc' = loc
                                  /\ s3' = move_folder(s3)
  /\ UNCHANGED << inputs, catalogo, queues, event, injected >>

Next ==
  \/ Deliver
  \/ InjectRedrive
  \/ start_process
  \/ validate_s3_file_in_queue_message
  \/ special_flow
  \/ process_standard_file
  \/ process_special_file
  \/ insert_new_file_record
  \/ normal_flow
  \/ process_file_and_update_db
  \/ process_update_db
  \/ unzip_file_data
  \/ check_unzipped_files
  \/ validate_files_and_register_indb
  \/ register_member
  \/ update_all_enviado
  \/ validate_and_consolidate_response_process
  \/ process_pending_files_and_send_to_queue
  \/ process_file_error
  \/ rejected_state_errors
  \/ errors
  \/ lambda_handler_end

Spec == Init /\ [][Next]_vars

(* ---------------------------- fair delivery ---------------------------- *)
\* the steps of a running invocation
Steps ==
  \/ start_process
  \/ validate_s3_file_in_queue_message
  \/ special_flow
  \/ process_standard_file
  \/ process_special_file
  \/ insert_new_file_record
  \/ normal_flow
  \/ process_file_and_update_db
  \/ process_update_db
  \/ unzip_file_data
  \/ check_unzipped_files
  \/ validate_files_and_register_indb
  \/ register_member
  \/ update_all_enviado
  \/ validate_and_consolidate_response_process
  \/ process_pending_files_and_send_to_queue
  \/ process_file_error
  \/ rejected_state_errors
  \/ errors
  \/ lambda_handler_end

\* the three kinds of message body: storage event, storage event with the
\* re-drive fields, re-drive envelope of the engine
Kinds == { << TRUE, FALSE >>, << TRUE, TRUE >>, << FALSE, TRUE >> }

DeliverKind(k) ==
  \E m \in sqs_process :
     /\ << m.Records, m.is_reprocessing >> = k
     /\ DeliverMsg(m)

\* a smaller set of starting points for the liveness check: a sound reversal
\* or special archive, no failing error-catalog flag, a FileRecord that is
\* absent or was never sent back
FairInit ==
  /\ Init
  /\ archive.kw /\ archive.re /\ archive.pfx
  /\ (archive.prefix = "RE_PRO_") => archive.rev
  /\ \A c \in PfeCodes : catalogo[c]
  /\ cgd_archivos.estado = ESTADO_ENVIADO
  /\ cgd_archivos.contador = 0

\* a running invocation always takes its next step, and every kind of message
\* that keeps being available is delivered again (the event source redelivers
\* what an invocation did not delete)
FairSpec ==
  /\ FairInit
  /\ [][Next]_vars
  /\ WF_vars(Steps)
  /\ \A k \in Kinds : SF_vars(DeliverKind(k))

\* files processed at the same time: the archive of another file is under
\* the processing prefix when this file's notification arrives.  The starting
\* points are those of the liveness check
ConcurrentInit ==
  /\ InitWith(StoreInit("zip"))
  /\ archive.kw /\ archive.re /\ archive.pfx
  /\ (archive.prefix = "RE_PRO_") => archive.rev
  /\ \A c \in PfeCodes : catalogo[c]
  /\ cgd_archivos.estado = ESTADO_ENVIADO
  /\ cgd_archivos.contador = 0

ConcurrentSpec == ConcurrentInit /\ [][Next]_vars

\* a registration that stopped part-way.  The first k members of the expanded
\* archive were inserted as PENDIENTE_INICIO and their validate-requests
\* published, the insert of the next one failed, the retry path of the error
\* policy recorded EICP006 on the run, and a re-drive carrying the file id and
\* the run id is in the source queue
PartialInit ==
  /\ archive \in ArchivesFollowed
  /\ archive.kw /\ archive.re /\ archive.pfx /\ WellFormed(archive)
  /\ (archive.prefix = "RE_PRO_") => archive.rev
  /\ cgd_archivos = [exists |-> TRUE, estado |-> ESTADO_PROCESA_PENDIENTE_REINTENTO,
                     contador |-> 1]
  /\ cgd_archivo_estados =
       << [estado_inicial |-> ESTADO_ENVIADO,
           estado_final |-> CARGANDO],
          [estado_inicial |-> CARGANDO,
           estado_final |-> ESTADO_PROCESA_PENDIENTE_REINTENTO] >>
  /\ cgd_rta_procesamiento =
       << [id_rta_procesamiento |-> 1, estado |-> "PENDIENTE_REINTENTO",
           tipo_respuesta |-> tipo_respuesta, contador |-> 1,
           codigo_error |-> "EICP006"] >>
  /\ \E k \in 1..(archive.n - 1) :
       /\ cgd_rta_pro_archivos =
            { [id_rta_procesamiento |-> 1, nombre_archivo |-> j,
               estado |-> "PENDIENTE_INICIO"] : j \in 1..k }
       /\ sqs_validate = [b \in { ValidateRequest(1, j) : j \in 1..k } |-> 1]
  /\ catalogo = [c \in PfeCodes |-> TRUE]
  /\ s3 = [StoreInit("none") EXCEPT !.inbox = FALSE, !.folder = 1..archive.n]
  /\ sqs_process = { [n |-> 2, Records |-> TRUE, file_id |-> FileId,
                      response_processing_id |-> 1, is_reprocessing |-> TRUE] }
  /\ sqs_consolidate = << >>
  /\ sqs_emails = [t \in {"PC009", "PC012", "PC013"} |-> IF t = "PC012" THEN 1 ELSE 0]
  /\ pc = "idle"
  /\ event = << >>
  /\ loc = LocInit
  /\ hist = HistInit
  /\ redrives = 1
  /\ injected = MaxInjected
  /\ nextMsg = 3
  /\ faults = 0
  /\ call = NoCall

\* an event of one record, within the same bound as the batches
DeliverOne ==
  /\ BatchWrites <= MaxBatchWrites
  /\ Deliver

\* events of one or two records
BatchNext == Steps \/ InjectRedrive \/ DeliverOne \/ DeliverBatch \/ next_record

BatchSpec == FairInit /\ [][BatchNext]_vars

\* the pipeline started on a fresh file or on a partly registered one
ResumeSpec == (FairInit \/ PartialInit) /\ [][Next]_vars

(* ---------------------------- functions on their own ------------------- *)
\* the keyword lists of the three profiles (environment of the deployment)
CONSTANTE_TU_DEBITO_REVERSO == << "DEBITO", "REVERSO" >>
CONSTANTES_TU_REINTEGROS == << "REINTEGRO" >>
CONSTANTES_TU_ESPECIALES == << "ESPECIAL" >>

Range(q) == { q[i] : i \in DOMAIN q }

\* the members a listing may hold
MaxMembers == 6

\* a member name, as far as verification reads it: whether it starts with
\* "RE_" and the keyword it contains, if any
MemberNames ==
  { [re |-> TRUE, texto |-> t] :
      t \in Range(CONSTANTE_TU_DEBITO_REVERSO) \cup Range(CONSTANTES_TU_REINTEGROS)
              \cup Range(CONSTANTES_TU_ESPECIALES) \cup { "" } }
    \cup { [re |-> FALSE, texto |-> ""] }

RECURSIVE SumOver(_, _)
SumOver(l, names) ==
  IF names = {} THEN 0
  ELSE LET x == CHOOSE y \in names : TRUE IN l[x] + SumOver(l, names \ {x})

\* len(archivos)
cantidad_archivos(l) == SumOver(l, MemberNames)

\* a listing: how many members of each name the folder holds
Listings ==
  { l \in [MemberNames -> 0..MaxMembers] : cantidad_archivos(l) <= MaxMembers }

EmptyListing == [x \in MemberNames |-> 0]

\* any(texto in archivo for archivo in archivos)
InAnyMember(texto, l) == \E x \in MemberNames : l[x] > 0 /\ x.texto = texto

coincidencias(textos, l) == SelectSeq(textos, LAMBDA texto : InAnyMember(texto, l))

todos_comienzan_con_re(l) == \A x \in MemberNames : (l[x] > 0) => x.re

VerifyResult(valido, hits, l, archivos, tipo) ==
  [valido |-> valido, coincidencias |-> hits,
   todos_comienzan_con_re |-> todos_comienzan_con_re(l),
   archivos |-> archivos, tipo |-> tipo]

\* variants of the verification (a valid listing returned without its
\* members; the count of the listing not read)
Verifyfiles_drops_members(l) ==
  LET n == cantidad_archivos(l) IN
  IF n = 5 /\ coincidencias(CONSTANTE_TU_DEBITO_REVERSO, l) # << >>
  THEN VerifyResult(TRUE, coincidencias(CONSTANTE_TU_DEBITO_REVERSO, l), l, EmptyListing, "01")
  ELSE IF n = 3 /\ coincidencias(CONSTANTES_TU_REINTEGROS, l) # << >>
  THEN VerifyResult(TRUE, coincidencias(CONSTANTES_TU_REINTEGROS, l), l, EmptyListing, "02")
  ELSE IF n = 2 /\ coincidencias(CONSTANTES_TU_ESPECIALES, l) # << >>
  THEN VerifyResult(TRUE, coincidencias(CONSTANTES_TU_ESPECIALES, l), l, EmptyListing, "03")
  ELSE VerifyResult(FALSE, << >>, l, EmptyListing, "00")

Verifyfiles_any_count(l) ==
  IF coincidencias(CONSTANTE_TU_DEBITO_REVERSO, l) # << >>
  THEN VerifyResult(TRUE, coincidencias(CONSTANTE_TU_DEBITO_REVERSO, l), l, l, "01")
  ELSE IF coincidencias(CONSTANTES_TU_REINTEGROS, l) # << >>
  THEN VerifyResult(TRUE, coincidencias(CONSTANTES_TU_REINTEGROS, l), l, l, "02")
  ELSE IF coincidencias(CONSTANTES_TU_ESPECIALES, l) # << >>
  THEN VerifyResult(TRUE, coincidencias(CONSTANTES_TU_ESPECIALES, l), l, l, "03")
  ELSE VerifyResult(FALSE, << >>, l, EmptyListing, "00")

\* Verifyfiles.verify_files_data on a listing, member by member
Verifyfiles_verify_files_data(l) ==
  LET n == cantidad_archivos(l) IN
  IF n = 5 /\ coincidencias(CONSTANTE_TU_DEBITO_REVERSO, l) # << >>
  THEN VerifyResult(TRUE, coincidencias(CONSTANTE_TU_DEBITO_REVERSO, l), l, l, "01")
  ELSE IF n = 3 /\ coincidencias(CONSTANTES_TU_REINTEGROS, l) # << >>
  THEN VerifyResult(TRUE, coincidencias(CONSTANTES_TU_REINTEGROS, l), l, l, "02")
  ELSE IF n = 2 /\ coincidencias(CONSTANTES_TU_ESPECIALES, l) # << >>
  THEN VerifyResult(TRUE, coincidencias(CONSTANTES_TU_ESPECIALES, l), l, l, "03")
  ELSE VerifyResult(FALSE, << >>, l, EmptyListing, "00")

\* process_update_db computes the response type of the archive's name
Call_tipo_respuesta ==
  /\ call.f = "none"
  /\ call' = [f |-> "tipo_respuesta", arg |-> << archive.prefix, archive.rev >>,
              ret |-> tipo_respuesta]
  /\ UNCHANGED << archive, ledger, catalogo, s3, queues, pc, event, loc, hist,
                  injected, faults >>

\* verify_files_data is applied to a listing
Call_verify_files_data ==
  /\ call.f = "none"
  /\ \E l \in Listings :
       call' = [f |-> "verify_files_data", arg |-> l,
                ret |-> Verifyfiles_verify_files_data(l)]
  /\ UNCHANGED << archive, ledger, catalogo, s3, queues, pc, event, loc, hist,
                  injected, faults >>

\* validate_well_formed_esp is applied to a key
Call_validate_well_formed_esp ==
  /\ call.f = "none"
  /\ \E k \in EspKeys :
       call' = [f |-> "validate_well_formed_esp", arg |-> k,
                ret |-> validate_well_formed_esp(k, start_special_files, end_special_files)]
  /\ UNCHANGED << archive, ledger, catalogo, s3, queues, pc, event, loc, hist,
                  injected, faults >>

\* the call is over
Call_return ==
  /\ call.f # "none"
  /\ call' = NoCall
  /\ UNCHANGED << archive, ledger, catalogo, s3, queues, pc, event, loc, hist,
                  injected, faults >>

\* the archive names the response type is computed for: every prefix, with
\* and without the "-R" marker
FunArchives ==
  { a \in Archives : a.key = StandardKey /\ a.n = 2 /\ a.kw /\ a.re /\ a.pfx }

FunInit ==
  /\ archive \in FunArchives
  /\ call = NoCall
  /\ cgd_archivos = [exists |-> FALSE, estado |-> ESTADO_ENVIADO, contador |-> 0]
  /\ cgd_archivo_estados = << >>
  /\ cgd_rta_procesamiento = << >>
  /\ cgd_rta_pro_archivos = {}
  /\ catalogo = [c \in PfeCodes |-> TRUE]
  /\ s3 = StoreInit("none")
  /\ sqs_process = { S3Event(1) }
  /\ sqs_validate = [k \in {} |-> 0]
  /\ sqs_consolidate = << >>
  /\ sqs_emails = [t \in {"PC009", "PC012", "PC013"} |-> 0]
  /\ pc = "idle"
  /\ event = << >>
  /\ loc = LocInit
  /\ hist = HistInit
  /\ redrives = 0
  /\ injected = 0
  /\ nextMsg = 2
  /\ faults = 0

FunNext ==
  \/ Call_tipo_respuesta
  \/ Call_verify_files_data
  \/ Call_validate_well_formed_esp
  \/ Call_return

FunSpec == FunInit /\ [][FunNext]_vars

(* ---------------------------- claims ----------------------------------- *)
EndPcs == { "returned", "exit", "raised" }

\* the engine ran to its end with every one of its own service calls answered
EngineRan ==
  /\ hist.engine = "process_file_error"
  /\ ~hist.engFault
  /\ hist.cnt >= 0

\* C1: in process_file_error, for a retryable error and an attempt counter of
\* max-1, exactly one re-drive envelope is published and the FileRecord is
\* PROCESA_PENDIENTE_REINTENTO; for an attempt counter of max, no re-drive is
\* published and the FileRecord is PROCESAMIENTO_FALLIDO, whatever the flag.
C1_RetryBudget ==
  EngineRan =>
    /\ (hist.retryable /\ hist.cnt = NumberRetries - 1) =>
         /\ hist.redrive = 1
         /\ cgd_archivos.estado = ESTADO_PROCESA_PENDIENTE_REINTENTO
    /\ (hist.cnt >= NumberRetries) =>
         /\ hist.redrive = 0
         /\ cgd_archivos.estado = ESTADO_PROCESAMIENTO_FALLIDO

\* the case of C1 with a run: one re-drive at max-1
C1_Witness ==
  /\ EngineRan /\ hist.hadRun /\ hist.retryable
  /\ hist.cnt = NumberRetries - 1
  /\ hist.redrive = 1

\* C2: when the catalog marks the error not retryable, process_file_error
\* takes the terminal path for every attempt counter: FileRecord
\* PROCESAMIENTO_FALLIDO, run FALLIDO, no re-drive envelope.
C2_NotRetryableIsTerminal ==
  (EngineRan /\ hist.hadRun /\ ~hist.retryable) =>
    /\ hist.branch = "fail"
    /\ hist.redrive = 0
    /\ cgd_archivos.estado = ESTADO_PROCESAMIENTO_FALLIDO
    /\ \E k \in FirstRows : Runs[k].estado = "FALLIDO"

\* the file reached consolidation, or was rejected or failed for good
Terminal ==
  \/ Len(sqs_consolidate) > 0
  \/ /\ cgd_archivos.exists
     /\ cgd_archivos.estado \in
          { ESTADO_PROCESAMIENTO_RECHAZADO, ESTADO_PROCESAMIENTO_FALLIDO }

\* C3: under fair delivery the re-drive envelopes published for the file
\* never exceed the configured retries, and a file scheduled for a retry
\* eventually reaches consolidation, PROCESAMIENTO_RECHAZADO or
\* PROCESAMIENTO_FALLIDO.
C3_FiniteLifecycle ==
  /\ [](redrives <= NumberRetries)
  /\ ((redrives > 0 /\ cgd_archivos.estado = ESTADO_PROCESA_PENDIENTE_REINTENTO)
        ~> Terminal)

\* C4: a re-drive envelope of the engine, once the dispatcher has looked at
\* it, was dispatched as a re-drive (run marked INICIADO, counter incremented):
\* not as a first arrival and not ended by an exception.
C4_RedriveRecognised ==
  (event # << >> /\ ~event[1].Records /\ pc # "start_process") =>
     hist.dispatch = "redrive"

\* C5: when the latest run is already ENVIADO, consolidation publishes no
\* consolidate-request, writes nothing to the ledger and ends as a success.
C5_ConsolidationIdempotent ==
  (hist.consEntry = "ENVIADO") =>
     /\ hist.consPublished = 0
     /\ hist.consWrites = 0
     /\ hist.success

\* C6: every MemberFile that reads back ENVIADO has exactly one
\* validate-request published for it, over all attempts.
C6_OneValidateRequest ==
  \A a \in cgd_rta_pro_archivos :
     (a.estado = "ENVIADO") =>
        Published(sqs_validate,
                  ValidateRequest(a.id_rta_procesamiento, a.nombre_archivo)) = 1

\* normal_flow was entered with the FileRecord in a state outside the
\* accepted set
EnteredOutside ==
  /\ hist.nfState \notin { "none", "absent" }
  /\ hist.nfState \notin estados_list

\* the EICP002 reject is what follows, and nothing else was done
RejectedEICP002 ==
  /\ \/ pc = "errors" /\ loc.error_code = "EICP002"
     \/ hist.engine = "errors" /\ hist.code = "EICP002"
  /\ hist.steps = {}

C8_NoSilentLoss ==
  (pc = "returned") => (hist.success \/ hist.engine # "none")

C10_RetryPath ==
  (EngineRan /\ hist.retryable /\ hist.cnt < NumberRetries) =>
     /\ pc = "exit"
     /\ hist.branch = "retry"
     /\ cgd_archivos.estado = ESTADO_PROCESA_PENDIENTE_REINTENTO
     /\ hist.hadRun => \E k \in FirstRows : Runs[k].estado = "PENDIENTE_REINTENTO"
     /\ hist.deleted
     /\ hist.redrive = 1
     /\ hist.redriveIds
     /\ hist.notif = "PC012"

\* C11: on the terminal-failure path (attempt counter at the configured max)
\* process_file_error leaves the FileRecord PROCESAMIENTO_FALLIDO and the run
\* FALLIDO, has the archive under the rejection prefix, publishes one PC013
\* notification and no re-drive envelope, deletes the source message and ends
\* with exit.
C11_TerminalPath ==
  (EngineRan /\ hist.cnt >= NumberRetries) =>
     /\ pc = "exit"
     /\ hist.branch = "fail"
     /\ cgd_archivos.estado = ESTADO_PROCESAMIENTO_FALLIDO
     /\ \E k \in FirstRows : Runs[k].estado = "FALLIDO"
     /\ s3.rejected
     /\ hist.notif = "PC013"
     /\ hist.deleted
     /\ hist.redrive = 0

\* C12: on a first arrival whose object key is not in the object store the
\* dispatcher ends the invocation with exit, without raising an exception and
\* without a ledger write, a publish or a call of the error engine; also when
\* reading the source queue fails or returns no message.
C12_NotFoundAborts ==
  (hist.dispatch = "first_arrival" /\ hist.s3check \notin {"none", "found"}
     /\ ~hist.keyExisted) =>
     /\ pc = "exit"
     /\ hist.exc = ""
     /\ hist.steps = {}
     /\ hist.engine = "none"

\* C13: for a standard-prefix archive without a FileRecord, a failed ledger
\* lookup ends in process_file_error with EICP006, a clean lookup that finds
\* nothing ends in errors with EICP001, and normal_flow is entered in neither
\* case.
C13_MissingStandardFile ==
  (pc \in EndPcs /\ ~check_prefix_esp /\ ~cgd_archivos.exists
     /\ hist.lookup # "none") =>
     /\ hist.nfState = "none"
     /\ (hist.lookup = "error") =>
           (hist.engine = "process_file_error" /\ hist.code = "EICP006")
     /\ (hist.lookup = "clean") =>
           (hist.engine = "errors" /\ hist.code = "EICP001")

\* C14: for a well-formed special-prefix archive without a FileRecord,
\* insert_new_file_record inserts the FileRecord in state ENVIADO before
\* normal_flow starts and normal_flow is then entered for it; when the insert
\* fails no FileRecord exists, normal_flow is not entered and
\* process_file_error is called with EICP006.
C14_SpecialBootstrap ==
  /\ (hist.bootstrap = "inserted") =>
        /\ check_prefix_esp /\ WellFormed(archive)
        /\ cgd_archivos.exists
        /\ loc.file_id = FileId
        /\ \/ pc = "normal_flow" /\ cgd_archivos = NewFileRecord
           \/ hist.nfState = ESTADO_ENVIADO
  /\ (hist.bootstrap = "failed") =>
        /\ ~cgd_archivos.exists
        /\ hist.nfState = "none"
        /\ \/ pc = "process_file_error" /\ loc.error_code = "EICP006"
           \/ hist.engine = "process_file_error" /\ hist.code = "EICP006"

\* the insert was done and the normal flow ran its first steps for the file
C14_Witness ==
  /\ hist.bootstrap = "inserted"
  /\ hist.nfState = ESTADO_ENVIADO
  /\ "run" \in hist.steps

\* the insert failed and the engine was entered
C14_WitnessFailed ==
  /\ hist.bootstrap = "failed"
  /\ hist.engine = "process_file_error"

\* C15: the response type process_update_db computes from the archive name
\* is "02" for a standard prefix (RE_PRO_ or RE_PRE_) with the "-R" marker
\* before the extension, "01" for a standard prefix without it, "03" for
\* RE_ESP_, and no type for an unrecognised prefix.
C15_ResponseType ==
  (call.f = "tipo_respuesta") =>
     LET prefijo == call.arg[1]
         reverso == call.arg[2]
     IN  call.ret =
           IF prefijo \in { "RE_PRO_", "RE_PRE_" } THEN (IF reverso THEN "02" ELSE "01")
           ELSE IF prefijo = "RE_ESP_" THEN "03"
           ELSE ""

\* the response type of a RE_PRO_, RE_ESP_ or unrecognised name is as stated
C15_ResponseTypeOtherPrefixes ==
  (call.f = "tipo_respuesta" /\ call.arg[1] # "RE_PRE_") =>
     call.ret =
       IF call.arg[1] = "RE_PRO_" THEN (IF call.arg[2] THEN "02" ELSE "01")
       ELSE IF call.arg[1] = "RE_ESP_" THEN "03"
       ELSE ""

\* the response type of a RE_PRE_ name was computed
C15_Witness == call.f = "tipo_respuesta" /\ call.arg[1] = "RE_PRE_"

\* every keyword of the list occurs in some member name of the listing
AllOccur(textos, l) == \A t \in Range(textos) : InAnyMember(t, l)

\* no keyword of the list occurs in any member name of the listing
NoneOccurs(textos, l) == \A t \in Range(textos) : ~InAnyMember(t, l)

\* C16: verify_files_data returns valid = false and type "00" for every
\* listing whose member count is not 2, 3 or 5, and for every listing of 2, 3
\* or 5 members in which no keyword of that count's profile occurs in any
\* member name.
C16_InvalidListing ==
  (call.f = "verify_files_data") =>
     LET l == call.arg
         n == cantidad_archivos(l)
     IN  ( \/ n \notin {2, 3, 5}
           \/ n = 5 /\ NoneOccurs(CONSTANTE_TU_DEBITO_REVERSO, l)
           \/ n = 3 /\ NoneOccurs(CONSTANTES_TU_REINTEGROS, l)
           \/ n = 2 /\ NoneOccurs(CONSTANTES_TU_ESPECIALES, l) )
         => (~call.ret.valido /\ call.ret.tipo = "00")

\* a listing of five members holding keywords of the other two profiles
\* only was verified and found invalid
C16_Witness ==
  /\ call.f = "verify_files_data"
  /\ cantidad_archivos(call.arg) = 5
  /\ NoneOccurs(CONSTANTE_TU_DEBITO_REVERSO, call.arg)
  /\ InAnyMember("REINTEGRO", call.arg) /\ InAnyMember("ESPECIAL", call.arg)
  /\ ~call.ret.valido

\* C17: verify_files_data returns valid with type "01" for every 5-member
\* listing in which all debit/reversal keywords occur, "02" for every
\* 3-member listing in which the reintegro keywords occur and "03" for every
\* 2-member listing in which the special keywords occur; the type of a valid
\* listing is determined by the member count alone and the returned member
\* list is the listing itself.
C17_ValidListing ==
  (call.f = "verify_files_data") =>
     LET l == call.arg
         n == cantidad_archivos(l)
         r == call.ret
     IN  /\ (n = 5 /\ AllOccur(CONSTANTE_TU_DEBITO_REVERSO, l)) => (r.valido /\ r.tipo = "01")
         /\ (n = 3 /\ AllOccur(CONSTANTES_TU_REINTEGROS, l)) => (r.valido /\ r.tipo = "02")
         /\ (n = 2 /\ AllOccur(CONSTANTES_TU_ESPECIALES, l)) => (r.valido /\ r.tipo = "03")
         /\ r.valido =>
              /\ r.tipo = (IF n = 5 THEN "01" ELSE IF n = 3 THEN "02" ELSE "03")
              /\ n \in {2, 3, 5}
              /\ r.archivos = l

\* a listing of five members in which both debit/reversal keywords occur,
\* one of them in a name not starting with the marker, was found valid
C17_Witness ==
  /\ call.f = "verify_files_data"
  /\ cantidad_archivos(call.arg) = 5
  /\ AllOccur(CONSTANTE_TU_DEBITO_REVERSO, call.arg)
  /\ ~call.ret.todos_comienzan_con_re
  /\ call.ret.valido /\ call.ret.tipo = "01" /\ call.ret.archivos = call.arg

\* C18: opening a run in process_update_db appends one ProcessingRun whose
\* sequence number is the file's largest existing sequence number plus one,
\* in state INICIADO with counter 1, so that the sequence numbers of the file
\* are strictly increasing in creation order; no run is appended when the
\* file's latest run is PENDIENTE_REPROCESO.
C18_RunSequence ==
  [][ LET old == cgd_rta_procesamiento
          new == cgd_rta_procesamiento'
          largest == IF Len(old) = 0 THEN 0
                     ELSE CHOOSE x \in { old[i].id_rta_procesamiento : i \in DOMAIN old } :
                            \A i \in DOMAIN old : old[i].id_rta_procesamiento <= x
      IN  /\ Len(new) >= Len(old)
          /\ \A i \in DOMAIN old : new[i].id_rta_procesamiento = old[i].id_rta_procesamiento
          /\ (Len(new) # Len(old)) =>
                /\ pc = "process_update_db"
                /\ Len(new) = Len(old) + 1
                /\ new[Len(new)].id_rta_procesamiento = largest + 1
                /\ new[Len(new)].estado = "INICIADO"
                /\ new[Len(new)].contador = 1
                /\ (Len(old) > 0) => (old[Len(old)].estado # "PENDIENTE_REPROCESO")
          /\ \A i, j \in DOMAIN new :
                (i < j) => (new[i].id_rta_procesamiento < new[j].id_rta_procesamiento)
          /\ (pc = "process_update_db" /\ Len(old) > 0
                /\ old[Len(old)].estado = "PENDIENTE_REPROCESO") => (Len(new) = Len(old)) ]_vars

\* a second run of the file was opened behind an earlier one
C18_Witness ==
  /\ Len(cgd_rta_procesamiento) = 2
  /\ cgd_rta_procesamiento[2].id_rta_procesamiento = 2
  /\ cgd_rta_procesamiento[2].estado = "INICIADO"
  /\ "run" \in hist.steps

\* process_update_db wrote the file and its history and left the run that is
\* PENDIENTE_REPROCESO as the only one
C18_WitnessSuppressed ==
  /\ cgd_rta_procesamiento = << PriorRunReproceso >>
  /\ pc = "unzip_file_data"
  /\ "history" \in hist.steps /\ "run" \notin hist.steps
  /\ cgd_archivos.estado = CARGANDO

\* C19: in every reachable ledger state each MemberFile, PENDIENTE_INICIO or
\* ENVIADO, is linked to a ProcessingRun of the file that exists: no member
\* is registered or flipped to ENVIADO before its run was created, on the
\* first arrival, the special bootstrap or a re-drive.
C19_MemberHasRun ==
  \A a \in cgd_rta_pro_archivos :
     /\ a.estado \in { "PENDIENTE_INICIO", "ENVIADO" }
     /\ \E k \in DOMAIN cgd_rta_procesamiento :
          cgd_rta_procesamiento[k].id_rta_procesamiento = a.id_rta_procesamiento

\* the members of a bootstrapped special archive were registered and flipped
\* to ENVIADO under the run opened for it
C19_Witness ==
  /\ hist.bootstrap = "inserted"
  /\ cgd_rta_pro_archivos # {}
  /\ \A a \in cgd_rta_pro_archivos :
        a.estado = "ENVIADO" /\ a.id_rta_procesamiento = 1
  /\ Len(cgd_rta_procesamiento) = 1

\* members were registered during a re-drive
C19_WitnessRedrive ==
  /\ hist.dispatch \notin { "none", "first_arrival" }
  /\ "member" \in hist.steps

\* C20: for every run at most one consolidate-request is ever published,
\* counted over the first attempt and all re-drives, including the case where
\* the request was published and the following flip of the run to ENVIADO
\* failed.
C20_OneConsolidateRequest ==
  \A k \in DOMAIN cgd_rta_procesamiento :
     Cardinality({ i \in DOMAIN sqs_consolidate :
                     sqs_consolidate[i] = cgd_rta_procesamiento[k].id_rta_procesamiento }) <= 1

\* a consolidate-request was published for the latest run while that run did
\* not read ENVIADO, and one had been published for it before
C20_Witness ==
  /\ hist.consPublished = 1
  /\ hist.consEntry \notin { "ENVIADO", "none", "no_run" }
  /\ Cardinality({ i \in DOMAIN sqs_consolidate : sqs_consolidate[i] = MaxIdRta }) = 2

\* this invocation is a re-drive that met no failed service call, no
\* exception and no error policy
CleanRedrive ==
  /\ hist.dispatch = "redrive"
  /\ pc \in EndPcs
  /\ hist.exc = "" /\ hist.engine = "none"
  /\ hist.s3check \notin { "ValueError", "delete_failed" }

\* C21: the steps of the normal flow are re-entrant.  A re-drive that arrives
\* after the archive was moved under the processing prefix and before it was
\* expanded skips the move, resumes with the expansion and goes on to member
\* registration; a re-drive that finds the archive expanded repeats no
\* completed step (no second move, no second run).
C21_RedriveResumes ==
  /\ (CleanRedrive /\ hist.resume = "moved") =>
        /\ "move" \notin hist.steps
        /\ "expand" \in hist.steps
        /\ "member" \in hist.steps \/ hist.code # ""
  /\ (CleanRedrive /\ hist.resume = "expanded") =>
        /\ "move" \notin hist.steps
        /\ Len(cgd_rta_procesamiento) = hist.runs0

\* a re-drive was dispatched while the archive was moved and not expanded
C21_Witness == hist.dispatch = "redrive" /\ hist.resume = "moved" /\ pc \in EndPcs

\* the first half of C21 alone
C21_MovedHalf ==
  (CleanRedrive /\ hist.resume = "moved") =>
        ("move" \notin hist.steps /\ "expand" \in hist.steps)

\* the second half of C21 alone
C21_ExpandedHalf ==
  (CleanRedrive /\ hist.resume = "expanded") =>
        ("move" \notin hist.steps /\ Len(cgd_rta_procesamiento) = hist.runs0)

\* C22: whenever an invocation ends with the FileRecord in
\* PROCESA_PENDIENTE_REINTENTO, a re-drive envelope for the file is in the
\* source queue: the source message is never deleted without the re-drive
\* having been published.
C22_RetryHasRedrive ==
  (pc \in EndPcs /\ hist.engine = "process_file_error" /\ hist.branch = "retry"
     /\ cgd_archivos.estado = ESTADO_PROCESA_PENDIENTE_REINTENTO) =>
     /\ \E m \in sqs_process : m.is_reprocessing
     /\ hist.deleted => (hist.redrive = 1)

\* the retry path deleted the source message and its re-drive was not sent
C22_Witness ==
  /\ pc = "exit" /\ hist.branch = "retry"
  /\ cgd_archivos.estado = ESTADO_PROCESA_PENDIENTE_REINTENTO
  /\ hist.deleted /\ hist.redrive = 0
  /\ sqs_process = {}

\* the same with every send of the re-drive answered
C22_WhenSent ==
  (pc \in EndPcs /\ hist.engine = "process_file_error" /\ hist.branch = "retry"
     /\ cgd_archivos.estado = ESTADO_PROCESA_PENDIENTE_REINTENTO /\ ~hist.engFault) =>
     /\ \E m \in sqs_process : m.is_reprocessing
     /\ hist.deleted => (hist.redrive = 1)

\* C23: the source-queue message deleted on the object-not-found path and on
\* the simple-reject path is the message of the invocation being processed;
\* no other message that is in the source queue at the same time is deleted
\* by this invocation.
C23_DeletesOwnMessage ==
  [][ (pc \in { "validate_s3_file_in_queue_message", "errors" }) =>
        (sqs_process \ sqs_process') \subseteq { event[1] } ]_vars

\* the simple-reject path ended after deleting a message, with the message
\* of its own invocation still in the source queue
C23_Witness ==
  /\ hist.engine = "errors" /\ hist.deleted
  /\ pc \in EndPcs
  /\ event[1] \in sqs_process

\* the object-not-found path deleted a message that is not its own
C23_WitnessNotFound ==
  /\ hist.s3check = "drained"
  /\ pc = "exit"
  /\ event[1] \in sqs_process

\* C24: when several archives are under the processing prefix at the same
\* time, unzip_file_data expands and deletes only the archive named in its
\* own invocation's notification, never the archive of another file.
C24_UnzipsOwnArchive ==
  [][ (pc = "unzip_file_data") => (s3'.other = s3.other) ]_vars

\* unzip_file_data ran for this file and the archive of the other file was
\* the one expanded and deleted, this file's archive still being a zip
C24_Witness ==
  /\ s3.other = "expanded"
  /\ s3.zip
  /\ "expand" \in hist.steps

Republished(nombre) ==
  \E rpid \in 1..MaxCounter :
     \/ Published(sqs_validate', ValidateRequest(rpid, nombre))
          > Published(sqs_validate, ValidateRequest(rpid, nombre))
     \/ Published(sqs_validate, ValidateRequest(rpid, nombre)) = MaxCounter

\* C26: the resume-pending-members path republishes a validate-request
\* exactly for the members that are physically present and whose ledger row
\* of matching type is still PENDIENTE_INICIO, none for a member that is not
\* PENDIENTE_INICIO; then the PENDIENTE_INICIO members are flipped to ENVIADO
\* and the consolidation check runs.  If the run lookup fails, nothing is
\* published and consolidation is not attempted.
C26_ResumePendingMembers ==
  [][ (pc = "process_pending_files_and_send_to_queue") =>
        /\ (faults' = faults) =>
              /\ \A j \in 1..archive.n :
                   LET pending == \E a \in cgd_rta_pro_archivos :
                                     a.nombre_archivo = j /\ a.estado = "PENDIENTE_INICIO"
                   IN  /\ (j \in read_s3 /\ pending) => Republished(j)
                       /\ (~pending \/ j \notin read_s3) =>
                             \A rpid \in 1..MaxCounter :
                                Published(sqs_validate', ValidateRequest(rpid, j))
                                  = Published(sqs_validate, ValidateRequest(rpid, j))
              /\ \A a \in cgd_rta_pro_archivos' : a.estado # "PENDIENTE_INICIO"
              /\ pc' = "validate_and_consolidate_response_process"
        /\ (pc' # "validate_and_consolidate_response_process") =>
              /\ sqs_validate' = sqs_validate
              /\ cgd_rta_pro_archivos' = cgd_rta_pro_archivos
              /\ pc' = "process_file_error" /\ loc'.error_code = "EICP006" ]_vars

\* the resume path (normal flow not entered) went on to the consolidation
\* check with both members ENVIADO, one of them published a second time
C26_Witness ==
  /\ pc = "validate_and_consolidate_response_process"
  /\ hist.dispatch = "redrive" /\ hist.nfState = "none"
  /\ Cardinality(cgd_rta_pro_archivos) = 2
  /\ \A a \in cgd_rta_pro_archivos : a.estado = "ENVIADO"
  /\ \E a, b \in cgd_rta_pro_archivos :
        /\ Published(sqs_validate, ValidateRequest(a.id_rta_procesamiento, a.nombre_archivo)) = 2
        /\ Published(sqs_validate, ValidateRequest(b.id_rta_procesamiento, b.nombre_archivo)) = 1

\* the dispatcher step of a re-drive that carries a file id and a run id
RedriveStep ==
  /\ pc = "start_process"
  /\ event[1].Records /\ event[1].is_reprocessing
  /\ event[1].file_id # 0 /\ event[1].response_processing_id # 0

\* the non-zero count takes the resume-pending path, which runs no move, no
\* run creation and no expansion
C27_NonZeroCount ==
  (hist.dispatch = "redrive" /\ hist.members0 > 0) =>
     /\ hist.nfState = "none"
     /\ Len(cgd_rta_procesamiento) = hist.runs0
     /\ pc \notin { "normal_flow", "process_file_and_update_db",
                    "process_update_db", "unzip_file_data" }

\* the zero count goes on into the normal flow, when the archive is still in
\* the object store and no read of it failed on the way
C27_ZeroCount ==
  (CleanRedrive /\ hist.members0 = 0 /\ hist.resume # "gone"
     /\ ~(hist.keyExisted /\ hist.s3check \in { "no_message", "drained" })) =>
     hist.nfState # "none"

\* a ledger failure of the dispatcher goes to the error policy with EPGA001
\* and takes neither path
C27_LedgerFailure ==
  [][ (RedriveStep /\ faults' # faults /\ hist'.exc = "") =>
        /\ pc' = "process_file_error" /\ loc'.error_code = "EPGA001"
        /\ hist'.members0 = -1 /\ hist'.nfState = "none" ]_vars

\* C27: on a re-drive carrying a non-zero file id and run id the dispatcher
\* chooses by the ledger's member count for that run: a non-zero count takes
\* the resume-pending-members path and never re-runs move, run creation or
\* expansion; a zero count proceeds into the normal flow; a ledger failure
\* while marking the run INICIADO or while counting routes to the error
\* policy with EPGA001 and neither path is taken.
C27_RedriveDispatch ==
  /\ C27_NonZeroCount
  /\ C27_ZeroCount
  /\ (hist.dispatch = "EPGA001" \/ (hist.dispatch = "redrive" /\ hist.members0 = -1 /\ hist.exc = "")) =>
        /\ hist.nfState = "none"
        /\ pc \in EndPcs \cup { "process_file_error" }
        /\ hist.code \in { "", "EPGA001" }

\* a re-drive with a zero member count, dispatched while the archive was
\* under the processing prefix, ended without entering the normal flow
C27_Witness ==
  /\ CleanRedrive /\ hist.members0 = 0 /\ hist.nfState = "none"
  /\ hist.resume = "moved"
  /\ ~hist.keyExisted /\ hist.s3check = "drained"

\* a re-drive with a non-zero member count reached the consolidation check
C27_WitnessNonZero ==
  /\ hist.dispatch = "redrive" /\ hist.members0 > 0
  /\ pc = "validate_and_consolidate_response_process"

\* a re-drive whose count query failed is at the error policy
C27_WitnessFailure ==
  /\ hist.dispatch = "redrive" /\ hist.members0 = -1
  /\ pc = "process_file_error" /\ loc.error_code = "EPGA001"

\* the verification of the expanded folder names another response type than
\* the file's latest run
TypeMismatches ==
  /\ cgd_archivos.exists /\ HasRun
  /\ Runs[Len(Runs)].tipo_respuesta # verify_files_data(s3.folder)[2]

\* C28: when the response type the verification returns differs from the
\* response type recorded on the file's latest run, the file is rejected with
\* EICP004 and no MemberFile is inserted, no validate-request and no
\* consolidate-request is published.
C28_TypeMismatchRejected ==
  [][ /\ (pc = "check_unzipped_files" /\ TypeMismatches
            /\ faults' = faults /\ hist'.exc = "") =>
           /\ pc' = "rejected_state_errors" /\ loc'.error_code = "EICP004"
           /\ "member" \notin hist'.steps /\ "validate" \notin hist'.steps
           /\ hist'.consPublished = 0
           /\ UNCHANGED << cgd_rta_pro_archivos, sqs_validate, sqs_consolidate >>
      /\ (pc = "rejected_state_errors" /\ loc.error_code = "EICP004"
            /\ faults' = faults /\ hist'.exc = "") =>
           /\ pc' = "errors" /\ loc'.error_code = "EICP004"
           /\ cgd_archivos'.estado = ESTADO_PROCESAMIENTO_RECHAZADO
           /\ UNCHANGED << cgd_rta_pro_archivos, sqs_validate, sqs_consolidate >>
      /\ (pc = "errors" /\ loc.error_code = "EICP004") =>
           /\ pc' \in EndPcs /\ hist'.code = "EICP004"
           /\ UNCHANGED << hist.steps, hist.consPublished, cgd_archivos,
                           cgd_rta_pro_archivos, sqs_validate, sqs_consolidate >> ]_vars

\* a valid member set of another type than the latest run's was rejected
\* with EICP004
C28_Witness ==
  /\ pc = "rejected_state_errors" /\ loc.error_code = "EICP004"
  /\ TypeMismatches /\ verify_files_data(s3.folder)[1]
  /\ "expand" \in hist.steps

\* the verification reports the expanded member set invalid
VerificationInvalid ==
  /\ cgd_archivos.exists /\ HasRun
  /\ s3.folder # {}
  /\ ~verify_files_data(s3.folder)[1]

\* C29: when the verification reports the expanded member set invalid
\* (valid = false), the normal flow rejects the file with code EICP005 and
\* with no other code.
C29_InvalidIsEICP005 ==
  [][ (pc \in { "check_unzipped_files", "validate_files_and_register_indb" }
         /\ VerificationInvalid /\ faults' = faults /\ hist'.exc = "") =>
        \/ pc' = "validate_files_and_register_indb"
        \/ pc' = "rejected_state_errors" /\ loc'.error_code = "EICP005" ]_vars

\* an invalid member set is being rejected with EICP004
C29_Witness ==
  /\ pc = "rejected_state_errors" /\ loc.error_code = "EICP004"
  /\ VerificationInvalid
  /\ hist.nfState # "none"

\* an invalid member set is being rejected with EICP005
C29_RejectedEICP005 ==
  /\ pc = "rejected_state_errors" /\ loc.error_code = "EICP005"
  /\ VerificationInvalid

\* this step of process_file_and_update_db took the archive out of the inbox
\* and put it under the processing prefix
MoveSucceeded == s3.inbox /\ ~s3'.inbox /\ s3'.zip

\* C30: when the move of the archive from the inbox to the processing prefix
\* fails, process_file_and_update_db goes to the error policy with EICP006 and
\* makes no history insert, no counter bump and no run insert; when the move
\* succeeds, those ledger writes follow.
C30_MoveFailureStops ==
  [][ (pc = "process_file_and_update_db") =>
        IF MoveSucceeded
        THEN pc' = "process_update_db"
        ELSE /\ pc' = "process_file_error" /\ loc'.error_code = "EICP006"
             /\ UNCHANGED ledger ]_vars

\* the archive was not moved (it is not under the processing prefix) and the
\* ledger writes of process_update_db followed
C30_Witness ==
  /\ pc = "unzip_file_data" /\ "move" \in hist.steps
  /\ ~s3.zip /\ s3.folder = {}
  /\ HasRun /\ Runs[Len(Runs)].estado = "INICIADO"
  /\ hist.exc = "" /\ hist.engine = "none"

\* the move succeeded and the ledger writes followed
C30_SuccessHalf ==
  [][ (pc = "process_file_and_update_db" /\ MoveSucceeded) =>
        pc' = "process_update_db" ]_vars

\* C31: when expanding the archive fails at any sub-step (archive not found,
\* download, decompression, upload of a member), the normal flow rejects the
\* file with EICP003, no MemberFile is inserted, no validate-request is
\* published and the original archive is not deleted.
C31_ExpansionFailureRejects ==
  [][ /\ (pc = "unzip_file_data" /\ pc' # "check_unzipped_files") =>
           /\ pc' = "rejected_state_errors" /\ loc'.error_code = "EICP003"
           /\ s3'.zip = s3.zip
           /\ UNCHANGED << cgd_rta_pro_archivos, sqs_validate >>
      /\ (pc = "rejected_state_errors" /\ loc.error_code = "EICP003"
            /\ faults' = faults) =>
           /\ pc' = "errors"
           /\ cgd_archivos'.estado = ESTADO_PROCESAMIENTO_RECHAZADO
           /\ UNCHANGED << cgd_rta_pro_archivos, sqs_validate >> ]_vars

\* the download or an upload of the expansion failed and the invocation ended
\* with the archive still under the processing prefix and the file not rejected
C31_Witness ==
  /\ pc = "raised" /\ hist.exc = "ClientError"
  /\ "move" \in hist.steps /\ "expand" \notin hist.steps
  /\ s3.zip
  /\ cgd_archivos.estado # ESTADO_PROCESAMIENTO_RECHAZADO
  /\ hist.engine = "none"

\* no archive was found under the processing prefix and the EICP003 reject
\* ended with a TypeError
C31_WitnessNotFound ==
  /\ pc = "raised" /\ hist.exc = "TypeError"
  /\ loc.error_code = "EICP003"
  /\ ~s3.zip /\ s3.folder = {}

\* what does hold: no member row and no validate-request follows a failed
\* expansion, and the archive is not deleted by it
C31_NothingRegistered ==
  [][ (pc = "unzip_file_data" /\ pc' # "check_unzipped_files") =>
        /\ s3'.zip = s3.zip
        /\ pc' \in { "rejected_state_errors", "raised", "returned" }
        /\ UNCHANGED << cgd_rta_pro_archivos, sqs_validate >> ]_vars

C33_ConsolidateAfterFlip ==
  [][ (Len(sqs_consolidate') > Len(sqs_consolidate)) =>
        \A a \in cgd_rta_pro_archivos :
           (a.id_rta_procesamiento = sqs_consolidate'[Len(sqs_consolidate')])
             => a.estado # "PENDIENTE_INICIO" ]_vars

\* on the resume path a consolidate-request was published for a run that has
\* a member still PENDIENTE_INICIO
C33_Witness ==
  /\ hist.dispatch = "redrive" /\ hist.members0 > 0
  /\ hist.consPublished = 1
  /\ \E a \in cgd_rta_pro_archivos :
        /\ a.estado = "PENDIENTE_INICIO"
        /\ a.id_rta_procesamiento = sqs_consolidate[Len(sqs_consolidate)]

\* the same on the registration path alone, where it holds
C33_RegistrationPath ==
  [][ (Len(sqs_consolidate') > Len(sqs_consolidate) /\ hist.nfState # "none") =>
        \A a \in cgd_rta_pro_archivos :
           (a.id_rta_procesamiento = sqs_consolidate'[Len(sqs_consolidate')])
             => a.estado # "PENDIENTE_INICIO" ]_vars

\* C34: when a consolidate-request is published for a run, every member of
\* the expanded archive has a MemberFile row of that run, also when a first
\* registration failed part-way (after some members were inserted) and the
\* run was completed by a re-drive.
C34_AllMembersRegistered ==
  [][ (Len(sqs_consolidate') > Len(sqs_consolidate)) =>
        \A j \in s3.folder :
           \E a \in cgd_rta_pro_archivos :
              /\ a.nombre_archivo = j
              /\ a.id_rta_procesamiento = sqs_consolidate'[Len(sqs_consolidate')] ]_vars

\* a re-drive completed a run of which a member of the expanded archive has
\* no MemberFile row, with every call answered
C34_Witness ==
  /\ pc = "returned" /\ faults = 0
  /\ hist.dispatch = "redrive" /\ hist.members0 > 0
  /\ hist.consPublished = 1 /\ hist.success
  /\ \E j \in s3.folder :
        \A a \in cgd_rta_pro_archivos : a.nombre_archivo # j

\* the same on a first registration that met no failure, where it holds
C34_FirstRegistration ==
  [][ (Len(sqs_consolidate') > Len(sqs_consolidate) /\ "member" \in hist.steps) =>
        \A j \in s3.folder :
           \E a \in cgd_rta_pro_archivos :
              /\ a.nombre_archivo = j
              /\ a.id_rta_procesamiento = sqs_consolidate'[Len(sqs_consolidate')] ]_vars

\* C35: for a file with more than one ProcessingRun, every run-state write of
\* the pipeline (INICIADO and counter bump on re-drive, RECHAZADO,
\* PENDIENTE_REINTENTO, FALLIDO, error code) changes the file's current run,
\* the latest one, and leaves every older run of the file unchanged.
C35_OlderRunsUnchanged ==
  [][ /\ Len(cgd_rta_procesamiento') >= Len(cgd_rta_procesamiento)
      /\ \A k \in 1..(Len(cgd_rta_procesamiento) - 1) :
            cgd_rta_procesamiento'[k] = cgd_rta_procesamiento[k] ]_vars

\* the error policy ran in the invocation that inserted the second run of the
\* file, and its error code is on the first run while the second has none
C35_Witness ==
  /\ pc \in EndPcs /\ hist.engine = "process_file_error"
  /\ "run" \in hist.steps
  /\ Len(cgd_rta_procesamiento) = 2
  /\ cgd_rta_procesamiento[1].codigo_error = hist.code
  /\ cgd_rta_procesamiento[1].estado \in { "PENDIENTE_REINTENTO", "FALLIDO" }
  /\ cgd_rta_procesamiento[2].codigo_error = ""
  /\ cgd_rta_procesamiento[2].estado = "INICIADO"

\* a re-drive marked the first of two runs INICIADO
C35_WitnessRedrive ==
  /\ hist.dispatch = "redrive" /\ hist.runs0 = 2
  /\ cgd_rta_procesamiento[1].estado = "INICIADO"
  /\ pc \in { "process_pending_files_and_send_to_queue", "process_update_db",
              "validate_s3_file_in_queue_message" }

\* the FileStateHistory row a step appended, if it appended one
LastRow(h) == h[Len(h)]

\* C36: the FileStateHistory rows are consistent with the FileRecord: each
\* row's prior state is the FileRecord state before the transition and its new
\* state is the FileRecord state once the transition is done, so consecutive
\* rows chain; no row exists for a transition whose FileRecord update did not
\* happen, and no FileRecord state change happens without a row.
C36_HistoryMatchesRecord ==
  [][ /\ (Len(cgd_archivo_estados') > Len(cgd_archivo_estados)) =>
           /\ LastRow(cgd_archivo_estados').estado_inicial = cgd_archivos.estado
           /\ LastRow(cgd_archivo_estados').estado_final = cgd_archivos'.estado
      /\ (cgd_archivos.exists /\ cgd_archivos'.estado # cgd_archivos.estado) =>
           Len(cgd_archivo_estados') > Len(cgd_archivo_estados) ]_vars

\* a history row to CARGANDO_RTA_PROCESAMIENTO was written and the FileRecord
\* update that follows it failed
C36_Witness ==
  /\ pc = "process_file_error" /\ loc.error_code = "EICP006"
  /\ "history" \in hist.steps /\ "run" \notin hist.steps
  /\ Len(cgd_archivo_estados) > 0
  /\ LastRow(cgd_archivo_estados).estado_final = CARGANDO
  /\ cgd_archivos.estado # CARGANDO

\* with every call answered the rows and the FileRecord agree
C36_WhenAnswered ==
  [][ (faults' = faults /\ ~hist'.engFault) =>
      /\ (Len(cgd_archivo_estados') > Len(cgd_archivo_estados)) =>
           /\ LastRow(cgd_archivo_estados').estado_inicial = cgd_archivos.estado
           /\ LastRow(cgd_archivo_estados').estado_final = cgd_archivos'.estado
      /\ (cgd_archivos.exists /\ cgd_archivos'.estado # cgd_archivos.estado) =>
           Len(cgd_archivo_estados') > Len(cgd_archivo_estados) ]_vars

\* C37: when an event carries several records, the error policy acts on the
\* record that is being processed: the receipt handle it deletes (and the
\* archive name it reads from the event) is that of the failing record, never
\* that of another record of the same event.
C37_EngineUsesFailingRecord ==
  [][ (pc = "process_file_error") =>
        (sqs_process \ sqs_process') \subseteq { event[loc.rec] } ]_vars

\* the second record of an event failed, the error policy deleted the message
\* of the first record, and the failing record's message is still queued
C37_Witness ==
  /\ pc = "exit" /\ hist.engine = "process_file_error"
  /\ Len(event) = 2 /\ loc.rec = 2
  /\ hist.deleted
  /\ event[1] \notin sqs_process
  /\ event[2] \in sqs_process

\* with one record to an event the error policy deletes that record's message
C37_SingleRecord ==
  [][ (pc = "process_file_error" /\ Len(event) = 1) =>
        (sqs_process \ sqs_process') \subseteq { event[loc.rec] } ]_vars

\* the three ledger writes of rejected_state_errors, as steps
RunRejected ==
  \E k \in 1..Len(cgd_rta_procesamiento) :
     cgd_rta_procesamiento' =
       [cgd_rta_procesamiento EXCEPT ![k].estado = "RECHAZADO"]

HistoryRejected ==
  cgd_archivo_estados' =
    Append(cgd_archivo_estados,
           [estado_inicial |-> cgd_archivos.estado,
            estado_final |-> ESTADO_PROCESAMIENTO_RECHAZADO])

RecordRejected ==
  cgd_archivos' = [cgd_archivos EXCEPT !.estado = ESTADO_PROCESAMIENTO_RECHAZADO,
                                       !.contador = Sat(@)]

\* what a step of rejected_state_errors with the given codes does
RejectOrder(codes) ==
  (pc = "rejected_state_errors" /\ loc.error_code \in codes
     /\ HasRun /\ cgd_archivos.exists) =>
    IF faults' = faults
    THEN /\ RunRejected /\ HistoryRejected /\ RecordRejected
         /\ s3' = move_folder(s3)
         /\ pc' = "errors" /\ loc'.error_code = loc.error_code
    ELSE (hist'.exc = "") =>
         /\ pc' = "process_file_error" /\ loc'.error_code = "EICP006"
         /\ s3' = s3
         /\ cgd_archivos' = cgd_archivos
         /\ HistoryRejected \/ cgd_archivo_estados' = cgd_archivo_estados
         /\ RunRejected \/ cgd_rta_procesamiento' = cgd_rta_procesamiento
         /\ HistoryRejected => RunRejected

\* C38: a reject with EICP003, EICP004 or EICP005 through
\* rejected_state_errors writes, in this order, run -> RECHAZADO, a history
\* row (current state -> PROCESAMIENTO_RECHAZADO), FileRecord ->
\* PROCESAMIENTO_RECHAZADO with its counter incremented, then moves the working
\* folder to the rejection folder and invokes the simple reject; if one of the
\* three ledger writes fails, the later writes and the simple reject are not
\* performed and the failure goes to the error policy with EICP006.
C38_RejectOrder == [][ RejectOrder({ "EICP003", "EICP004", "EICP005" }) ]_vars

\* an EICP003 reject wrote the three ledger rows and ended with
\* a TypeError before the simple reject
C38_Witness ==
  /\ pc = "raised" /\ hist.exc = "TypeError"
  /\ loc.error_code = "EICP003" /\ hist.engine = "none"
  /\ cgd_archivos.estado = ESTADO_PROCESAMIENTO_RECHAZADO
  /\ Len(cgd_archivo_estados) > 0
  /\ LastRow(cgd_archivo_estados).estado_final = ESTADO_PROCESAMIENTO_RECHAZADO

\* the same for EICP004 and EICP005 alone, where a working folder exists
C38_WithFolder == [][ RejectOrder({ "EICP004", "EICP005" }) ]_vars

\* an EICP003 reject that has something to move
C38_EICP003WithFolder ==
  /\ pc = "rejected_state_errors" /\ loc.error_code = "EICP003"
  /\ carpeta_mas_reciente # "None"

\* this step of the simple reject took the archive out of the inbox and put
\* it under the rejection folder
ArchiveRejected == s3.inbox /\ ~s3'.inbox /\ s3'.rejected

\* C39: the simple reject performs, in this order, catalog lookup, move of the
\* archive to the rejection folder, one rejection notification, delete of the
\* source message, termination; if the archive cannot be moved, no
\* notification is published and no source message is deleted, and if the
\* catalog lookup fails nothing is moved, published or deleted.
C39_SimpleRejectOrder ==
  [][ (pc = "errors") =>
        /\ pc' \in EndPcs
        /\ (~ArchiveRejected) =>
              /\ s3' = s3
              /\ sqs_emails' = sqs_emails
              /\ sqs_process' = sqs_process ]_vars

\* the archive was not moved (it is still in the inbox) and the rejection
\* notification was published and a message of the source queue deleted
C39_Witness ==
  /\ pc \in EndPcs /\ hist.engine = "errors"
  /\ s3.inbox /\ ~s3.rejected
  /\ hist.notif = "PC009" /\ hist.deleted

\* what holds: the step ends the simple reject, a message is deleted only
\* after the notification was published or its publication failed, and the
\* object store changes only by the archive's move to the rejection folder
C39_CatalogFirst ==
  [][ (pc = "errors") =>
        /\ pc' \in EndPcs
        /\ (sqs_process' # sqs_process) => hist'.notif = "PC009" \/ faults' # faults
        /\ (s3' # s3) => ArchiveRejected ]_vars

\* the archive's name violates the start or the end window
WindowViolated ==
  \/ archive.key.parte_fija1 # start_special_files
  \/ archive.key.parte_fija2 # end_special_files

\* the embedded date is a calendar date not later than the invocation's
DateAccepted ==
  LET f == strptime(archive.key.fecha_str)
  IN f # None /\ f.y * 10000 + f.m * 100 + f.d
                   <= fecha_actual.y * 10000 + fecha_actual.m * 100 + fecha_actual.d

\* C40: a special-prefix archive whose name violates the configured fixed
\* substring window, or whose embedded date is not a valid date or is later
\* than today, is rejected with EICP007; no FileRecord is inserted for it and
\* normal_flow is not entered.  A name with the matching window and an
\* embedded date equal to or before today is accepted.  Stated of the
\* invocations that classify the archive, those of its notification.
C40_SpecialNameChecked ==
  [][ /\ (/\ check_prefix_esp /\ hist.dispatch = "first_arrival"
          /\ (WindowViolated \/ ~DateAccepted)) =>
            /\ (pc = "process_special_file") =>
                  pc' = "errors" /\ loc'.error_code = "EICP007"
            /\ cgd_archivos' = cgd_archivos
            /\ pc' \notin { "normal_flow", "insert_new_file_record" }
      /\ (pc = "process_special_file" /\ ~WindowViolated /\ DateAccepted) =>
            pc' \in { "normal_flow", "insert_new_file_record" } ]_vars

\* a special archive dated after the invocation was rejected with EICP007
C40_Witness ==
  /\ check_prefix_esp /\ ~WindowViolated
  /\ strptime(archive.key.fecha_str) # None /\ ~DateAccepted
  /\ pc \in EndPcs /\ hist.engine = "errors" /\ hist.code = "EICP007"
  /\ ~cgd_archivos.exists

\* a special archive of another end window was rejected
C40_WitnessWindow ==
  /\ check_prefix_esp /\ WindowViolated
  /\ pc \in EndPcs /\ hist.engine = "errors" /\ hist.code = "EICP007"

\* a special archive dated 30 February was rejected
C40_WitnessInvalidDate ==
  /\ check_prefix_esp /\ ~WindowViolated
  /\ strptime(archive.key.fecha_str) = None
  /\ pc \in EndPcs /\ hist.engine = "errors" /\ hist.code = "EICP007"

\* a special archive dated the day of the invocation entered normal_flow
C40_WitnessToday ==
  /\ check_prefix_esp /\ ~WindowViolated
  /\ strptime(archive.key.fecha_str) = fecha_actual
  /\ pc = "normal_flow"

\* the check applied on its own: it answers True exactly for the keys with
\* both windows and a calendar date not after the invocation's
C40_FunctionAnswer ==
  (call.f = "validate_well_formed_esp") =>
     (call.ret <=> /\ call.arg.parte_fija1 = start_special_files
                   /\ call.arg.parte_fija2 = end_special_files
                   /\ strptime(call.arg.fecha_str) # None
                   /\ DateLeq(strptime(call.arg.fecha_str), fecha_actual))

====
